---- MODULE Spec2Model ----
(***************************************************************************)
(* Model of google-scholar-tool: the query builder of scholar.py and the   *)
(* citation formatter of books.py.                                         *)
(*                                                                         *)
(* A Python str is a sequence of one-character strings, so that joining,   *)
(* quoting, splitting and slicing are computed character by character.     *)
(* An Optional value is <<>> for None and <<v>> for a present value v.     *)
(***************************************************************************)
EXTENDS Integers, Sequences, FiniteSets, TLC

VARIABLES
    pc,             \* "idle" before the call, then "build_query" or "cite"
    terms,          \* build_query: terms
    exact_phrases,  \* build_query: exact_phrases (None or a list)
    exclude_terms,  \* build_query: exclude_terms (None or a list)
    intitle,        \* build_query: intitle (None or a str)
    query,          \* build_query: the returned string
    book,           \* cite: the Book (title, authors, publisher, published_date)
    style,          \* cite: the style argument
    authors_str,    \* cite_*: the local `authors` (None when no formatter ran)
    citation,       \* cite: the outcome, [kind |-> "ok" or an exception, value |-> str]
    year_ret,       \* the value read from book.year (None before it is read)
    isbn_ret,       \* the value read from book.isbn, an Optional[str]
    search,         \* search_publications / search_authors: the generator being
                    \* consumed (its arguments, the upstream iterator and its locals)
    detail,         \* get_author_details: its argument, what the two upstream
                    \* calls do, and how the call ended
    invocation,     \* a run of the command line: its arguments and options, its
                    \* environment and what the upstream services do
    run,            \* what the run wrote to stdout and stderr and how it ended
    volumes         \* search_books: its arguments, the request it sends, what the
                    \* book service answers, and what consuming it gives

vars == <<pc, terms, exact_phrases, exclude_terms, intitle, query,
          book, style, authors_str, citation, year_ret, isbn_ret, search, detail,
          invocation, run, volumes>>

propVars == <<year_ret, isbn_ret>>
scholarVars == <<search, detail>>
cliVars == <<invocation, run>>
booksVars == <<volumes>>

queryVars == <<terms, exact_phrases, exclude_terms, intitle, query>>
citeVars == <<book, style, authors_str, citation>>

-----------------------------------------------------------------------------
(* Python values *)

None == <<>>
Some(v) == <<v>>
Val(o) == o[1]

\* truthiness of an Optional[str] or Optional[list]: None and the empty value are falsy
Truthy(o) == o # <<>> /\ o[1] # <<>>

\* sep.join(parts)
RECURSIVE Join(_, _)
Join(sep, parts) ==
    IF parts = <<>> THEN <<>>
    ELSE IF Len(parts) = 1 THEN parts[1]
    ELSE parts[1] \o sep \o Join(sep, Tail(parts))

\* c in s, for a one-character c
CharIn(c, s) == \E i \in 1..Len(s) : s[i] = c

-----------------------------------------------------------------------------
(* scholar.py: build_query *)

DQUOTE == <<"\"">>
OR_SEP == <<" ","O","R"," ">>
AND_SEP == <<" ","A","N","D"," ">>
INTITLE_PREFIX == <<" ","i","n","t","i","t","l","e",":","\"">>
EXCLUDE_PREFIX == <<" ","-">>

\* lines 110-116: the term group appended to query_parts
TermGroupNoParens(ts) ==
    IF ts = <<>> THEN <<>>
    ELSE IF Len(ts) = 1 THEN <<ts[1]>>
    ELSE <<Join(OR_SEP, ts)>>

TermGroup(ts) ==
    IF ts = <<>> THEN <<>>
    ELSE IF Len(ts) = 1 THEN <<ts[1]>>
    ELSE << <<"(">> \o Join(OR_SEP, ts) \o <<")">> >>

\* lines 121-124: one exact phrase, quoted when it holds a space character
QuotePhrase(phrase) ==
    IF CharIn(" ", phrase) THEN DQUOTE \o phrase \o DQUOTE ELSE phrase

\* lines 119-124: the phrases appended to query_parts
PhraseParts(eps) ==
    IF Truthy(eps)
    THEN [i \in 1..Len(Val(eps)) |-> QuotePhrase(Val(eps)[i])]
    ELSE <<>>

\* line 127
CombinePartsFromThree(query_parts) ==
    IF Len(query_parts) > 2 THEN Join(AND_SEP, query_parts)
    ELSE Join(<<>>, query_parts)

CombineParts(query_parts) ==
    IF Len(query_parts) > 1 THEN Join(AND_SEP, query_parts)
    ELSE Join(<<>>, query_parts)

\* lines 130-131
IntitleSuffix(it) ==
    IF Truthy(it) THEN INTITLE_PREFIX \o Val(it) \o DQUOTE ELSE <<>>

\* lines 134-136
RECURSIVE ExcludeLoop(_)
ExcludeLoop(xs) ==
    IF xs = <<>> THEN <<>>
    ELSE EXCLUDE_PREFIX \o Head(xs) \o ExcludeLoop(Tail(xs))

ExclusionSuffix(xts) ==
    IF Truthy(xts) THEN ExcludeLoop(Val(xts)) ELSE <<>>

\* lines 107-139, with the suffixes in a given order
build_query_exclusions_first(ts, eps, xts, it) ==
    CombineParts(TermGroup(ts) \o PhraseParts(eps))
        \o ExclusionSuffix(xts) \o IntitleSuffix(it)

build_query(ts, eps, xts, it) ==
    CombineParts(TermGroup(ts) \o PhraseParts(eps))
        \o IntitleSuffix(it) \o ExclusionSuffix(xts)

-----------------------------------------------------------------------------
(* the inputs of build_query *)

MaxTerms == 2
MaxPhrases == 2
MaxExclusions == 2

RECURSIVE ListsUpTo(_, _)
ListsUpTo(S, n) ==
    IF n = 0 THEN {<<>>}
    ELSE LET shorter == ListsUpTo(S, n - 1)
         IN  shorter \cup {Append(l, x) : l \in {m \in shorter : Len(m) = n - 1}, x \in S}

OptionalOf(S) == {None} \cup {Some(v) : v \in S}

S_HRM == <<"H","R","M">>
S_human_resource_management ==
    <<"h","u","m","a","n"," ","r","e","s","o","u","r","c","e"," ",
      "m","a","n","a","g","e","m","e","n","t">>
S_job_satisfaction ==
    <<"j","o","b"," ","s","a","t","i","s","f","a","c","t","i","o","n">>
S_the_Netherlands ==
    <<"t","h","e"," ","N","e","t","h","e","r","l","a","n","d","s">>

\* a one-word term, a two-word term, and a term that itself holds " AND "
TermStrings == {<<"A">>, <<"a"," ","b">>, <<"x"," ","A","N","D"," ","y">>}
\* a one-word phrase, a phrase with a space, a phrase with a tab
PhraseStrings == {<<"P">>, <<"p"," ","q">>, <<"p","\t","q">>}
ExcludeStrings == {<<"x">>, <<"y">>}
IntitleStrings == {<<>>, <<"t"," ","u">>}

\* the call of the docstring (lines 100-104)
DocstringCall ==
    [terms |-> <<S_HRM, S_human_resource_management>>,
     exact_phrases |-> Some(<<S_job_satisfaction>>),
     exclude_terms |-> None,
     intitle |-> Some(S_the_Netherlands)]

QueryCalls ==
    [terms : ListsUpTo(TermStrings, MaxTerms),
     exact_phrases : OptionalOf(ListsUpTo(PhraseStrings, MaxPhrases)),
     exclude_terms : OptionalOf(ListsUpTo(ExcludeStrings, MaxExclusions)),
     intitle : OptionalOf(IntitleStrings)]
    \cup {DocstringCall}

-----------------------------------------------------------------------------
(* books.py: Book *)

Ok(v) == [kind |-> "ok", value |-> v]
Raise(e, msg) == [kind |-> e, value |-> msg]

\* the characters str.split() and str.strip() treat as whitespace
PY_WHITESPACE == {" ", "\t", "\n"}

\* author.split(): the maximal runs of non-whitespace characters, in order
RECURSIVE SplitLoop(_, _, _)
SplitLoop(s, cur, acc) ==
    IF s = <<>> THEN (IF cur = <<>> THEN acc ELSE Append(acc, cur))
    ELSE IF Head(s) \in PY_WHITESPACE
         THEN SplitLoop(Tail(s), <<>>, IF cur = <<>> THEN acc ELSE Append(acc, cur))
         ELSE SplitLoop(Tail(s), Append(cur, Head(s)), acc)

Split(s) == SplitLoop(s, <<>>, <<>>)

\* parts[-1] and parts[:-1]
Last(parts) == parts[Len(parts)]
ButLast(parts) == SubSeq(parts, 1, Len(parts) - 1)

\* s.endswith(".")
EndsWithPeriod(s) == s # <<>> /\ s[Len(s)] = "."

UNKNOWN_AUTHOR_SHORT == <<"U","n","k","n","o","w","n">>
UNKNOWN_AUTHOR == <<"U","n","k","n","o","w","n"," ","A","u","t","h","o","r">>
PUBLISHER_UNKNOWN ==
    <<"P","u","b","l","i","s","h","e","r"," ","u","n","k","n","o","w","n">>
NO_DATE == <<"n",".","d",".">>

\* lines 37-42 without the slice
year_whole_date(b) ==
    IF Truthy(b.published_date) THEN Val(b.published_date) ELSE NO_DATE

\* lines 37-42: Book.year
year(b) ==
    IF Truthy(b.published_date)
    THEN LET d == Val(b.published_date)
         IN  SubSeq(d, 1, IF Len(d) < 4 THEN Len(d) ELSE 4)
    ELSE NO_DATE

\* lines 44-47 with the operands exchanged
isbn_prefers_10(b) ==
    IF Truthy(b.isbn_10) THEN b.isbn_10 ELSE b.isbn_13

\* lines 44-47: Book.isbn, `self.isbn_13 or self.isbn_10`
isbn(b) ==
    IF Truthy(b.isbn_13) THEN b.isbn_13 ELSE b.isbn_10

\* self.publisher or "Publisher unknown" (lines 117, 126, 137, 148)
PublisherOrUnknown(b) ==
    IF Truthy(b.publisher) THEN Val(b.publisher) ELSE PUBLISHER_UNKNOWN

\* f"{p[0]}." for p in parts[:-1]
Initials(parts) == [i \in 1..(Len(parts) - 1) |-> <<parts[i][1], ".">>]

\* lines 55-61: one author, APA
FormatAuthorApaNoSpace(author) ==
    LET parts == Split(author)
    IN  IF Len(parts) >= 2
        THEN Last(parts) \o <<",", " ">> \o Join(<<>>, Initials(parts))
        ELSE author

FormatAuthorApa(author) ==
    LET parts == Split(author)
    IN  IF Len(parts) >= 2
        THEN Last(parts) \o <<",", " ">> \o Join(<<" ">>, Initials(parts))
        ELSE author

\* lines 49-66
_format_authors_apa(authors) ==
    IF authors = <<>> THEN UNKNOWN_AUTHOR
    ELSE LET formatted == [i \in 1..Len(authors) |-> FormatAuthorApa(authors[i])]
         IN  IF Len(formatted) = 1 THEN formatted[1]
             ELSE IF Len(formatted) = 2
                  THEN formatted[1] \o <<" ","&"," ">> \o formatted[2]
                  ELSE Join(<<","," ">>, ButLast(formatted))
                           \o <<","," ","&"," ">> \o Last(formatted)

\* lines 79-81 and 84: the first author of two or more, MLA; first[0] of an
\* author without a token raises IndexError
FirstFormattedInitials(author) ==
    LET first == Split(author)
    IN  IF Len(first) >= 2
        THEN Ok(Last(first) \o <<","," ">> \o Join(<<" ">>, Initials(first)))
        ELSE IF first = <<>> THEN Raise("IndexError", <<>>) ELSE Ok(first[1])

FirstFormatted(author) ==
    LET first == Split(author)
    IN  IF Len(first) >= 2
        THEN Ok(Last(first) \o <<","," ">> \o Join(<<" ">>, ButLast(first)))
        ELSE IF first = <<>> THEN Raise("IndexError", <<>>) ELSE Ok(first[1])

\* lines 68-85
_format_authors_mla(authors) ==
    IF authors = <<>> THEN Ok(UNKNOWN_AUTHOR)
    ELSE IF Len(authors) = 1
    THEN LET parts == Split(authors[1])
         IN  IF Len(parts) >= 2
             THEN Ok(Last(parts) \o <<","," ">> \o Join(<<" ">>, ButLast(parts)))
             ELSE Ok(authors[1])
    ELSE LET first_formatted == FirstFormatted(authors[1])
         IN  IF first_formatted.kind # "ok" THEN first_formatted
             ELSE IF Len(authors) = 2
                  THEN Ok(first_formatted.value \o <<","," ","a","n","d"," ">> \o authors[2])
                  ELSE Ok(first_formatted.value \o <<","," ","e","t"," ","a","l",".">>)

\* lines 87-89
_format_authors_chicago(authors) == _format_authors_mla(authors)

\* lines 97-103: one author, Harvard
FormatAuthorHarvard(author) ==
    LET parts == Split(author)
    IN  IF Len(parts) >= 2
        THEN Last(parts) \o <<",", " ">> \o Join(<<>>, Initials(parts))
        ELSE author

\* lines 91-108
_format_authors_harvard_oxford(authors) ==
    IF authors = <<>> THEN UNKNOWN_AUTHOR
    ELSE LET formatted == [i \in 1..Len(authors) |-> FormatAuthorHarvard(authors[i])]
         IN  IF Len(formatted) = 1 THEN formatted[1]
             ELSE IF Len(formatted) = 2
                  THEN formatted[1] \o <<" ","a","n","d"," ">> \o formatted[2]
                  ELSE Join(<<","," ">>, ButLast(formatted))
                           \o <<","," ","a","n","d"," ">> \o Last(formatted)

_format_authors_harvard(authors) ==
    IF authors = <<>> THEN UNKNOWN_AUTHOR
    ELSE LET formatted == [i \in 1..Len(authors) |-> FormatAuthorHarvard(authors[i])]
         IN  IF Len(formatted) = 1 THEN formatted[1]
             ELSE IF Len(formatted) = 2
                  THEN formatted[1] \o <<" ","a","n","d"," ">> \o formatted[2]
                  ELSE Join(<<","," ">>, ButLast(formatted))
                           \o <<" ","a","n","d"," ">> \o Last(formatted)

\* the outcome of a cite_* method: the local `authors` once it is assigned, and
\* the returned string or the exception raised
Returned(authors, text) == [authors |-> Some(authors), kind |-> "ok", value |-> text]
Raised(outcome) == [authors |-> None, kind |-> outcome.kind, value |-> outcome.value]

\* lines 110-118
cite_apa_no_default(b) ==
    LET authors == _format_authors_apa(b.authors)
        publisher == IF b.publisher = None THEN <<>> ELSE Val(b.publisher)
    IN  Returned(authors,
            authors \o <<" ","(">> \o year(b) \o <<")","."," ">> \o b.title
                \o <<"."," ">> \o publisher \o <<".">>)

cite_apa(b) ==
    LET authors == _format_authors_apa(b.authors)
        publisher == PublisherOrUnknown(b)
    IN  Returned(authors,
            authors \o <<" ","(">> \o year(b) \o <<")","."," ">> \o b.title
                \o <<"."," ">> \o publisher \o <<".">>)

\* lines 128-129 with the separator fixed
MlaTemplateAlwaysPeriod(authors, b, publisher) ==
    authors \o <<"."," ">> \o b.title \o <<"."," ">> \o publisher
        \o <<","," ">> \o year(b) \o <<".">>

\* lines 128-129 and 139-140
MlaTemplate(authors, b, publisher) ==
    LET sep == IF EndsWithPeriod(authors) THEN <<" ">> ELSE <<"."," ">>
    IN  authors \o sep \o b.title \o <<"."," ">> \o publisher
            \o <<","," ">> \o year(b) \o <<".">>

\* lines 120-129
cite_mla(b) ==
    LET formatted == _format_authors_mla(b.authors)
    IN  IF formatted.kind # "ok" THEN Raised(formatted)
        ELSE Returned(formatted.value,
                MlaTemplate(formatted.value, b, PublisherOrUnknown(b)))

\* lines 131-140
cite_chicago_full_name(b) ==
    LET formatted == _format_authors_chicago(b.authors)
    IN  IF formatted.kind # "ok" THEN Raised(formatted)
        ELSE IF Len(b.authors) = 1
             THEN Returned(b.authors[1],
                    MlaTemplate(b.authors[1], b, PublisherOrUnknown(b)))
             ELSE Returned(formatted.value,
                    MlaTemplate(formatted.value, b, PublisherOrUnknown(b)))

cite_chicago(b) ==
    LET formatted == _format_authors_chicago(b.authors)
    IN  IF formatted.kind # "ok" THEN Raised(formatted)
        ELSE Returned(formatted.value,
                MlaTemplate(formatted.value, b, PublisherOrUnknown(b)))

\* lines 142-149
cite_harvard(b) ==
    LET authors == _format_authors_harvard(b.authors)
        publisher == PublisherOrUnknown(b)
    IN  Returned(authors,
            authors \o <<" ","(">> \o year(b) \o <<")"," ">> \o b.title
                \o <<"."," ">> \o publisher \o <<".">>)

\* style.lower(), for the letters the styles are written in
UPPER == <<"A","B","C","D","E","F","G","H","I","J","K","L","M",
           "N","O","P","Q","R","S","T","U","V","W","X","Y","Z">>
LOWER == <<"a","b","c","d","e","f","g","h","i","j","k","l","m",
           "n","o","p","q","r","s","t","u","v","w","x","y","z">>
LowerChar(c) ==
    IF \E i \in 1..Len(UPPER) : UPPER[i] = c
    THEN LOWER[CHOOSE i \in 1..Len(UPPER) : UPPER[i] = c]
    ELSE c
LowerIdentity(s) == s
Lower(s) == [i \in 1..Len(s) |-> LowerChar(s[i])]

STYLE_APA == <<"a","p","a">>
STYLE_MLA == <<"m","l","a">>
STYLE_CHICAGO == <<"c","h","i","c","a","g","o">>
STYLE_HARVARD == <<"h","a","r","v","a","r","d">>

\* lines 163-168: the keys of `styles`, in insertion order
StyleKeys == <<STYLE_APA, STYLE_MLA, STYLE_CHICAGO, STYLE_HARVARD>>

\* lines 151-171
cite(b, st) ==
    LET key == Lower(st)
    IN  IF ~\E i \in 1..Len(StyleKeys) : StyleKeys[i] = key
        THEN Raised(Raise("ValueError",
                <<"U","n","s","u","p","p","o","r","t","e","d"," ","s","t","y","l","e",":"," ">>
                    \o st \o <<"."," ","U","s","e",":"," ">> \o Join(<<","," ">>, StyleKeys)))
        ELSE IF key = STYLE_APA THEN cite_apa(b)
        ELSE IF key = STYLE_MLA THEN cite_mla(b)
        ELSE IF key = STYLE_CHICAGO THEN cite_chicago(b)
        ELSE cite_harvard(b)

-----------------------------------------------------------------------------
(* the inputs of cite *)

MaxAuthors == 3

S_Jane_Q_Public == <<"J","a","n","e"," ","Q","."," ","P","u","b","l","i","c">>
S_Title == <<"T","i","t","l","e">>
S_ACME == <<"A","C","M","E">>
S_2020_05_01 == <<"2","0","2","0","-","0","5","-","0","1">>

\* three tokens, one token, two tokens with a tab between them, no token
AuthorNames ==
    {S_Jane_Q_Public, <<"P","l","a","t","o">>, <<"A","n","n","\t","L","e","e">>, <<>>}
Titles == {S_Title, <<"O","n"," ","X","?">>}
Publishers == {None, Some(<<>>), Some(S_ACME)}
PublishedDates ==
    {None, Some(<<>>), Some(<<"9","9">>), Some(<<"1","9","9","9">>), Some(S_2020_05_01)}
Styles ==
    {STYLE_APA, STYLE_MLA, STYLE_CHICAGO, STYLE_HARVARD,
     <<"A","P","A">>, <<"b","i","b","t","e","x">>}

Books ==
    [title : Titles,
     authors : ListsUpTo(AuthorNames, MaxAuthors),
     publisher : Publishers,
     published_date : PublishedDates]

\* Books with every field of the dataclass (lines 25-35), for the derived attributes
S_ISBN_10 == <<"0","3","0","6","4","0","6","1","5","2">>
S_ISBN_13 == <<"9","7","8","0","3","0","6","4","0","6","1","5","7">>

PropertyBooks ==
    [title : {S_Title},
     authors : {<<>>},
     publisher : Publishers,
     published_date : PublishedDates,
     description : {None},
     page_count : {None},
     categories : {<<>>},
     preview_link : {None},
     info_link : {None},
     isbn_10 : OptionalOf({<<>>, S_ISBN_10}),
     isbn_13 : OptionalOf({<<>>, S_ISBN_13})]

-----------------------------------------------------------------------------
(* scholar.py: search_publications, search_authors *)

\* d.get(key, default) and d.get(key), a missing key being None
Get(o, default) == IF o = None THEN default ELSE Val(o)

S_Unknown == <<"U","n","k","n","o","w","n">>

\* result.get("bib", {}) of a result without "bib"
EMPTY_BIB == [title |-> None, author |-> None, pub_year |-> None, abstract |-> None]

\* lines 172-181
MapPublication(result) ==
    LET bib == Get(result.bib, EMPTY_BIB)
    IN  [title |-> Get(bib.title, S_Unknown),
         authors |-> Get(bib.author, <<>>),
         year |-> bib.pub_year,
         abstract |-> bib.abstract,
         citations |-> Get(result.num_citations, 0),
         url |-> result.eprint_url,
         pub_url |-> result.pub_url]

\* lines 212-221 and 248-257
MapAuthor(result) ==
    [name |-> Get(result.name, S_Unknown),
     affiliation |-> result.affiliation,
     email_domain |-> result.email_domain,
     citations |-> Get(result.citedby, 0),
     h_index |-> Get(result.hindex, 0),
     i10_index |-> Get(result.i10index, 0),
     interests |-> Get(result.interests, <<>>),
     scholar_id |-> result.scholar_id]

MapResult(fn, result) ==
    IF fn = "search_publications" THEN MapPublication(result) ELSE MapAuthor(result)

\* the generator before its first item is requested (lines 165-167, 205-207):
\* `requested` counts the items asked of the upstream iterator, `raised` is the
\* exception that ended the generator
StartSearch(fn, upstream, fault, limit) ==
    [fn |-> fn, upstream |-> upstream, fault |-> fault, limit |-> limit,
     count |-> 0, requested |-> 0, produced |-> <<>>, done |-> FALSE, raised |-> None]

\* one round of `for result in search_query` with the test written `count > limit`
SearchStepPastLimit(s) ==
    IF s.requested >= Len(s.upstream)
    THEN [s EXCEPT !.requested = @ + 1, !.done = TRUE, !.raised = s.fault]
    ELSE IF s.count > s.limit
         THEN [s EXCEPT !.requested = @ + 1, !.done = TRUE]
         ELSE [s EXCEPT !.requested = @ + 1,
                        !.produced = Append(@, MapResult(s.fn, s.upstream[s.requested + 1])),
                        !.count = @ + 1]

\* lines 168-184 and 208-224: one round of `for result in search_query`: the next
\* item is asked of the upstream iterator, which ends (or fails) after its last
\* item; then the limit is tested, and the item is mapped and yielded
SearchStep(s) ==
    IF s.requested >= Len(s.upstream)
    THEN [s EXCEPT !.requested = @ + 1, !.done = TRUE, !.raised = s.fault]
    ELSE IF s.count >= s.limit
         THEN [s EXCEPT !.requested = @ + 1, !.done = TRUE]
         ELSE [s EXCEPT !.requested = @ + 1,
                        !.produced = Append(@, MapResult(s.fn, s.upstream[s.requested + 1])),
                        !.count = @ + 1]

\* list(search_...(...)): the generator consumed to its end
RECURSIVE Consume(_)
Consume(s) == IF s.done THEN s ELSE Consume(SearchStep(s))

-----------------------------------------------------------------------------
(* scholar.py: get_author_details *)

\* lines 244-261 without the try: a failure of scholarly.fill leaves the function
get_author_details_unguarded_fill(lookup, fill) ==
    IF lookup.kind # "ok" THEN Ok(None)
    ELSE IF fill.kind # "ok" THEN fill
    ELSE IF fill.value = None THEN Ok(None)
    ELSE Ok(Some(MapAuthor(Val(fill.value))))

\* lines 244-261: `lookup` is what scholarly.search_author_id does and `fill` what
\* scholarly.fill does, each returning a value (a dict or None) or raising; every
\* Exception inside the try, the AttributeError of None.get included, is logged
\* and turned into None
get_author_details(lookup, fill) ==
    IF lookup.kind # "ok" THEN Ok(None)
    ELSE IF fill.kind # "ok" THEN Ok(None)
    ELSE IF fill.value = None THEN Ok(None)
    ELSE Ok(Some(MapAuthor(Val(fill.value))))

-----------------------------------------------------------------------------
(* books.py: get_api_key, search_books *)

API_KEY_NOT_SET ==
    <<"G","O","O","G","L","E","_","B","O","O","K","S","_","A",
      "P","I","_","K","E","Y"," ","e","n","v","i","r","o","n",
      "m","e","n","t"," ","v","a","r","i","a","b","l","e"," ",
      "n","o","t"," ","s","e","t","."," ","G","e","t"," ","a",
      "n"," ","A","P","I"," ","k","e","y"," ","f","r","o","m",
      " ","h","t","t","p","s",":","/","/","c","o","n","s","o",
      "l","e",".","d","e","v","e","l","o","p","e","r","s",".",
      "g","o","o","g","l","e",".","c","o","m","/">>

\* lines 194-209: os.environ.get("GOOGLE_BOOKS_API_KEY") is None when the variable
\* is not set and may be the empty string
get_api_key(env_key) ==
    IF ~Truthy(env_key) THEN Raise("ValueError", API_KEY_NOT_SET) ELSE Ok(Val(env_key))

TYPE_ISBN_10 == <<"I","S","B","N","_","1","0">>
TYPE_ISBN_13 == <<"I","S","B","N","_","1","3">>

\* lines 256-260: the loop over the identifiers of one item, from the pair
\* <<isbn_10, isbn_13>> it has reached
RECURSIVE IdentifierLoop(_, _)
IdentifierLoop(identifiers, found) ==
    IF identifiers = <<>> THEN found
    ELSE LET identifier == Head(identifiers)
         IN  IdentifierLoop(Tail(identifiers),
                 IF identifier.type = Some(TYPE_ISBN_10)
                 THEN <<identifier.identifier, found[2]>>
                 ELSE IF identifier.type = Some(TYPE_ISBN_13)
                      THEN <<found[1], identifier.identifier>>
                      ELSE found)

EMPTY_VOLUME_INFO ==
    [title |-> None, authors |-> None, publisher |-> None, publishedDate |-> None,
     description |-> None, pageCount |-> None, categories |-> None,
     previewLink |-> None, infoLink |-> None, industryIdentifiers |-> None]

\* the Book with its ISBN-10 read from the first identifier, whatever its type
MapBookFirstIdentifier(item) ==
    LET volume_info == Get(item.volumeInfo, EMPTY_VOLUME_INFO)
        identifiers == Get(volume_info.industryIdentifiers, <<>>)
        isbns == IdentifierLoop(identifiers, <<None, None>>)
    IN  [title |-> Get(volume_info.title, S_Unknown),
         authors |-> Get(volume_info.authors, <<>>),
         publisher |-> volume_info.publisher,
         published_date |-> volume_info.publishedDate,
         description |-> volume_info.description,
         page_count |-> volume_info.pageCount,
         categories |-> Get(volume_info.categories, <<>>),
         preview_link |-> volume_info.previewLink,
         info_link |-> volume_info.infoLink,
         isbn_10 |-> IF identifiers = <<>> THEN None ELSE identifiers[1].identifier,
         isbn_13 |-> isbns[2]]

\* lines 250-277: the Book of one item of the response
MapBook(item) ==
    LET volume_info == Get(item.volumeInfo, EMPTY_VOLUME_INFO)
        isbns == IdentifierLoop(Get(volume_info.industryIdentifiers, <<>>), <<None, None>>)
    IN  [title |-> Get(volume_info.title, S_Unknown),
         authors |-> Get(volume_info.authors, <<>>),
         publisher |-> volume_info.publisher,
         published_date |-> volume_info.publishedDate,
         description |-> volume_info.description,
         page_count |-> volume_info.pageCount,
         categories |-> Get(volume_info.categories, <<>>),
         preview_link |-> volume_info.previewLink,
         info_link |-> volume_info.infoLink,
         isbn_10 |-> isbns[1],
         isbn_13 |-> isbns[2]]

\* str(e) of the two decoding errors
DECODE_MESSAGE ==
    [not_json |->
        <<"E","x","p","e","c","t","i","n","g"," ","v","a","l","u","e",":",
          " ","l","i","n","e"," ","1"," ","c","o","l","u","m","n"," ","1",
          " ","(","c","h","a","r"," ","0",")">>,
     undecodable |->
        <<"'","u","t","f","-","8","'"," ","c","o","d","e","c"," ","c","a",
          "n","'","t"," ","d","e","c","o","d","e"," ","b","y","t","e"," ",
          "0","x","f","f"," ","i","n"," ","p","o","s","i","t","i","o","n",
          " ","0",":"," ","i","n","v","a","l","i","d"," ","s","t","a","r",
          "t"," ","b","y","t","e">>]

\* lines 244-245: urlopen raises URLError; bytes that are not UTF-8 make decode
\* raise UnicodeDecodeError; text that is not JSON makes json.loads raise
\* JSONDecodeError; otherwise the parsed value is returned. Line 247: a parsed
\* value that is not an object has no get
ReadResponse(response) ==
    CASE response.kind = "URLError" -> Raise("URLError", <<>>)
      [] response.kind = "undecodable" -> Raise("UnicodeDecodeError", DECODE_MESSAGE.undecodable)
      [] response.kind = "not_json" -> Raise("JSONDecodeError", DECODE_MESSAGE.not_json)
      [] response.kind = "json_array" -> Raise("AttributeError", <<>>)
      [] OTHER -> Ok(Get(response.items, <<>>))

API_MAX_RESULTS == 40

\* line 236: the maxResults parameter of the request, min(limit, 40)
MaxResults(limit) == IF limit < API_MAX_RESULTS THEN limit ELSE API_MAX_RESULTS

\* lines 230-277 consumed by list(): the Books of every item of the response, or
\* the exception that ends the generator
search_books(env_key, limit, response) ==
    LET api_key == get_api_key(env_key)
        items == ReadResponse(response)
    IN  IF api_key.kind # "ok" THEN api_key
        ELSE IF items.kind # "ok" THEN items
        ELSE Ok([i \in 1..Len(items.value) |-> MapBook(items.value[i])])

\* ValueError and its subclasses in the Python library: json.JSONDecodeError and
\* UnicodeDecodeError are two of them, URLError (an OSError) is not
ValueErrors == {"ValueError", "JSONDecodeError", "UnicodeDecodeError"}

-----------------------------------------------------------------------------
(* the inputs of the searches *)

MaxUpstream == 3
MaxLimit == 3

S_T3 == <<"T","3">>

\* a result with every key, a result with no key, a result with a title only
PubResults ==
    {[bib |-> Some([title |-> Some(<<"T","1">>), author |-> Some(<<<<"A">>, <<"B">>>>),
                    pub_year |-> Some(<<"2","0","2","4">>), abstract |-> Some(<<"a","b","s">>)]),
      num_citations |-> Some(100), eprint_url |-> Some(<<"u",".","p","d","f">>),
      pub_url |-> Some(<<"u","/","p">>)],
     [bib |-> None, num_citations |-> None, eprint_url |-> None, pub_url |-> None],
     [bib |-> Some([title |-> Some(S_T3), author |-> None,
                    pub_year |-> None, abstract |-> None]),
      num_citations |-> Some(3), eprint_url |-> None, pub_url |-> None]}

AuthorResults ==
    {[name |-> Some(<<"N","1">>), affiliation |-> Some(<<"U","n","i">>),
      email_domain |-> Some(<<"u",".","e","d","u">>), citedby |-> Some(1000),
      hindex |-> Some(20), i10index |-> Some(50),
      interests |-> Some(<<<<"A","I">>, <<"M","L">>>>), scholar_id |-> Some(<<"I","D","1">>)],
     [name |-> None, affiliation |-> None, email_domain |-> None, citedby |-> None,
      hindex |-> None, i10index |-> None, interests |-> None, scholar_id |-> None],
     [name |-> Some(<<"N","3">>), affiliation |-> Some(<<>>), email_domain |-> None,
      citedby |-> Some(500), hindex |-> None, i10index |-> None,
      interests |-> Some(<<>>), scholar_id |-> None]}

ResultsOf(fn) == IF fn = "search_publications" THEN PubResults ELSE AuthorResults

\* test_search_publications_limit (test_scholar.py, lines 227-237): ten results
TenResults ==
    [i \in 1..10 |->
        [bib |-> Some([title |-> Some(<<"P", "a", "p", "e", "r", " ", ToString(i - 1)>>),
                       author |-> Some(<<>>), pub_year |-> None, abstract |-> None]),
         num_citations |-> Some(i - 1), eprint_url |-> None, pub_url |-> None]]

S_XrH4VJUAAAAJ == <<"X","r","H","4","V","J","U","A","A","A","A","J">>
ScholarIds == {S_XrH4VJUAAAAJ, <<"I","D","1">>, <<>>}

\* the faults of the upstream library, subclasses of Exception
UpstreamExceptions == {"ConnectionError", "MaxTriesExceededException"}

\* what one call of the upstream library does: a dict, None, or an exception
UpstreamOutcomes ==
    {Ok(Some(r)) : r \in AuthorResults} \cup {Ok(None)}
    \cup {Raise(e, <<>>) : e \in UpstreamExceptions}

NoDetail == [scholar_id |-> <<>>, lookup |-> Ok(None), fill |-> Ok(None), outcome |-> Ok(None)]

Faults == {None, Some("ConnectionError")}
Limits == (0 - 1)..MaxLimit

SearchCalls ==
    {StartSearch(fn, up, fault, limit) :
        fn \in {"search_publications"}, up \in ListsUpTo(PubResults, MaxUpstream),
        fault \in Faults, limit \in Limits}
    \cup
    {StartSearch(fn, up, fault, limit) :
        fn \in {"search_authors"}, up \in ListsUpTo(AuthorResults, MaxUpstream),
        fault \in Faults, limit \in Limits}
    \cup {StartSearch("search_publications", TenResults, None, 3)}

-----------------------------------------------------------------------------
(* cli.py: the text written by the subcommands *)

\* the labels of the text blocks (lines 231-237, 321-330, 430-446)
LABEL ==
    [authors |-> <<" "," "," ","A","u","t","h","o","r","s",":"," ">>,
     year |-> <<" "," "," ","Y","e","a","r",":"," ">>,
     citations |-> <<" "," "," ","C","i","t","a","t","i","o","n","s",":"," ">>,
     pdf |-> <<" "," "," ","P","D","F",":"," ">>,
     download |-> <<"[","D","o","w","n","l","o","a","d","]">>,
     affiliation |->
        <<" "," "," ","A","f","f","i","l","i","a","t","i","o","n",":"," ">>,
     h_index |-> <<" "," "," ","h","-","i","n","d","e","x",":"," ">>,
     i10_index |-> <<" "," "," ","i","1","0","-","i","n","d","e","x",":"," ">>,
     interests |-> <<" "," "," ","I","n","t","e","r","e","s","t","s",":"," ">>,
     scholar_id |-> <<" "," "," ","S","c","h","o","l","a","r"," ","I","D",":"," ">>,
     publisher |-> <<" "," "," ","P","u","b","l","i","s","h","e","r",":"," ">>,
     published |-> <<" "," "," ","P","u","b","l","i","s","h","e","d",":"," ">>,
     pages |-> <<" "," "," ","P","a","g","e","s",":"," ">>,
     categories |-> <<" "," "," ","C","a","t","e","g","o","r","i","e","s",":"," ">>,
     isbn |-> <<" "," "," ","I","S","B","N",":"," ">>,
     preview |-> <<" "," "," ","P","r","e","v","i","e","w",":"," ">>,
     search_in_book |->
        <<"[","S","e","a","r","c","h"," ","i","n"," ","b","o","o","k","]">>]

\* the messages of the subcommands
MESSAGE ==
    [no_results |->
        <<"N","o"," ","r","e","s","u","l","t","s"," ","f","o","u","n","d">>,
     no_authors |->
        <<"N","o"," ","a","u","t","h","o","r","s"," ","f","o","u","n","d">>,
     author_not_found |->
        <<"A","u","t","h","o","r"," ","n","o","t"," ","f","o","u","n","d">>,
     error |-> <<"E","r","r","o","r",":"," ">>,
     stdin |->
        <<"E","r","r","o","r",":"," ","-","-","s","t","d","i","n"," ","s",
          "p","e","c","i","f","i","e","d"," ","b","u","t"," ","n","o"," ",
          "i","n","p","u","t"," ","p","r","o","v","i","d","e","d">>,
     missing_query |->
        <<"E","r","r","o","r",":"," ","M","i","s","s","i","n","g"," ","q",
          "u","e","r","y"," ","a","r","g","u","m","e","n","t">>,
     query_or_id |->
        <<"E","r","r","o","r",":"," ","P","r","o","v","i","d","e"," ","e",
          "i","t","h","e","r"," ","a"," ","q","u","e","r","y"," ","o","r",
          " ","-","-","s","c","h","o","l","a","r","-","i","d">>,
     fix_stdin_search |->
        <<"F","i","x",":"," ","e","c","h","o"," ","'","q","u","e","r","y",
          "'"," ","|"," ","g","o","o","g","l","e","-","s","c","h","o","l",
          "a","r","-","t","o","o","l"," ","s","e","a","r","c","h"," ","-",
          "-","s","t","d","i","n">>,
     fix_stdin_author |->
        <<"F","i","x",":"," ","e","c","h","o"," ","'","n","a","m","e","'",
          " ","|"," ","g","o","o","g","l","e","-","s","c","h","o","l","a",
          "r","-","t","o","o","l"," ","a","u","t","h","o","r"," ","-","-",
          "s","t","d","i","n">>,
     fix_stdin_books |->
        <<"F","i","x",":"," ","e","c","h","o"," ","'","q","u","e","r","y",
          "'"," ","|"," ","g","o","o","g","l","e","-","s","c","h","o","l",
          "a","r","-","t","o","o","l"," ","b","o","o","k","s"," ","-","-",
          "s","t","d","i","n">>,
     fix_query_search |->
        <<"F","i","x",":"," ","P","r","o","v","i","d","e"," ","a"," ","s",
          "e","a","r","c","h"," ","q","u","e","r","y",","," ","e",".","g",
          ".",":"," ","g","o","o","g","l","e","-","s","c","h","o","l","a",
          "r","-","t","o","o","l"," ","s","e","a","r","c","h"," ","'","m",
          "a","c","h","i","n","e"," ","l","e","a","r","n","i","n","g","'">>,
     fix_query_books |->
        <<"F","i","x",":"," ","P","r","o","v","i","d","e"," ","a"," ","s",
          "e","a","r","c","h"," ","q","u","e","r","y",","," ","e",".","g",
          ".",":"," ","g","o","o","g","l","e","-","s","c","h","o","l","a",
          "r","-","t","o","o","l"," ","b","o","o","k","s"," ","'","p","y",
          "t","h","o","n","'">>,
     fix_query_or_id |->
        <<"F","i","x",":"," ","a","u","t","h","o","r"," ","'","n","a","m",
          "e","'"," ","O","R"," ","a","u","t","h","o","r"," ","-","-","s",
          "c","h","o","l","a","r","-","i","d"," ","'","I","D","'">>]

COMMA_SEP == <<",", " ">>
\* str(n) of an integer n >= 0, as an f-string writes it
RECURSIVE IntStr(_)
IntStr(n) ==
    LET DIGITS == <<"0","1","2","3","4","5","6","7","8","9">>
    IN  IF n < 10 THEN <<DIGITS[n + 1]>>
        ELSE IntStr(n \div 10) \o <<DIGITS[(n % 10) + 1]>>

\* s.strip()
RECURSIVE LStrip(_)
LStrip(s) == IF s # <<>> /\ Head(s) \in PY_WHITESPACE THEN LStrip(Tail(s)) ELSE s
RECURSIVE RStrip(_)
RStrip(s) ==
    IF s # <<>> /\ s[Len(s)] \in PY_WHITESPACE THEN RStrip(SubSeq(s, 1, Len(s) - 1)) ELSE s
Strip(s) == RStrip(LStrip(s))

\* sep in s
Contains(sep, s) == \E i \in 1..(Len(s) - Len(sep) + 1) : SubSeq(s, i, i + Len(sep) - 1) = sep

\* s.split(sep) for a non-empty sep
RECURSIVE SplitOnLoop(_, _, _)
SplitOnLoop(sep, s, cur) ==
    IF Len(s) < Len(sep) THEN <<cur \o s>>
    ELSE IF SubSeq(s, 1, Len(sep)) = sep
         THEN <<cur>> \o SplitOnLoop(sep, SubSeq(s, Len(sep) + 1, Len(s)), <<>>)
         ELSE SplitOnLoop(sep, Tail(s), Append(cur, Head(s)))
SplitOn(sep, s) == SplitOnLoop(sep, s, <<>>)

\* lines 36-53: `text` is an Optional[str]; `color` is TRUE when standard output
\* is a terminal and NO_COLOR is not set; "ESC" stands for the character "\033"
hyperlink(url, text, color) ==
    LET display == IF Truthy(text) THEN Val(text) ELSE url
        OSC8 == <<"ESC", "]", "8", ";", ";">>
        ST == <<"ESC", "\\">>
    IN  IF ~color
        THEN (IF Truthy(text) THEN display \o <<" ", "(">> \o url \o <<")">> ELSE url)
        ELSE OSC8 \o url \o ST \o display \o OSC8 \o ST

\* the header with the blocks counted from 0
HeaderFromZero(i, title) == <<"\n">> \o IntStr(i - 1) \o <<".", " ">> \o title

\* f"\n{i}. {title}"
Header(i, title) == <<"\n">> \o IntStr(i) \o <<".", " ">> \o title

\* the lines kept of a list of optional lines
RECURSIVE Present(_)
Present(lines) ==
    IF lines = <<>> THEN <<>>
    ELSE (IF Head(lines) = None THEN <<>> ELSE <<Val(Head(lines))>>) \o Present(Tail(lines))

\* lines 226-237: the lines echoed for publication number i
PublicationLines(i, pub, color) ==
    LET title_display ==
            IF Truthy(pub.pub_url) THEN hyperlink(Val(pub.pub_url), Some(pub.title), color)
            ELSE pub.title
    IN  Present(<<
            Some(Header(i, title_display)),
            Some(LABEL.authors \o (IF pub.authors # <<>> THEN Join(COMMA_SEP, pub.authors)
                                 ELSE S_Unknown)),
            Some(LABEL.year \o (IF Truthy(pub.year) THEN Val(pub.year) ELSE S_Unknown)),
            Some(LABEL.citations \o IntStr(pub.citations)),
            IF Truthy(pub.url)
            THEN Some(LABEL.pdf \o hyperlink(Val(pub.url), Some(LABEL.download), color))
            ELSE None >>)

\* lines 321-330: the lines echoed for author number i
AuthorLines(i, author) ==
    Present(<<
        Some(Header(i, author.name)),
        IF Truthy(author.affiliation)
        THEN Some(LABEL.affiliation \o Val(author.affiliation)) ELSE None,
        Some(LABEL.citations \o IntStr(author.citations)),
        Some(LABEL.h_index \o IntStr(author.h_index)),
        Some(LABEL.i10_index \o IntStr(author.i10_index)),
        IF author.interests # <<>>
        THEN Some(LABEL.interests \o Join(COMMA_SEP, author.interests)) ELSE None,
        IF Truthy(author.scholar_id)
        THEN Some(LABEL.scholar_id \o Val(author.scholar_id)) ELSE None >>)

\* page_count is an Optional[int]: None and 0 are false
TruthyInt(o) == o # None /\ Val(o) # 0

\* lines 428-446: the lines echoed for book number i
BookLines(i, b, color) ==
    LET title_display ==
            IF Truthy(b.info_link) THEN hyperlink(Val(b.info_link), Some(b.title), color)
            ELSE b.title
    IN  Present(<<
            Some(Header(i, title_display)),
            Some(LABEL.authors \o (IF b.authors # <<>> THEN Join(COMMA_SEP, b.authors)
                                 ELSE S_Unknown)),
            IF Truthy(b.publisher) THEN Some(LABEL.publisher \o Val(b.publisher)) ELSE None,
            IF Truthy(b.published_date)
            THEN Some(LABEL.published \o Val(b.published_date)) ELSE None,
            IF TruthyInt(b.page_count)
            THEN Some(LABEL.pages \o IntStr(Val(b.page_count))) ELSE None,
            IF b.categories # <<>>
            THEN Some(LABEL.categories \o Join(COMMA_SEP, b.categories)) ELSE None,
            IF Truthy(isbn(b)) THEN Some(LABEL.isbn \o Val(isbn(b))) ELSE None,
            IF Truthy(b.preview_link)
            THEN Some(LABEL.preview
                      \o hyperlink(Val(b.preview_link), Some(LABEL.search_in_book), color))
            ELSE None >>)

-----------------------------------------------------------------------------
(* cli.py: search_cmd, author_cmd, books_cmd *)

\* click.echo(text) and click.echo(json.dumps([r.to_dict() for r in results])):
\* to_dict keeps every field of the record under its own name
EchoText(s) == [json |-> None, text |-> s]
EchoJson(results) == [json |-> Some(results), text |-> <<>>]
EchoLines(lines) == [i \in 1..Len(lines) |-> EchoText(lines[i])]

\* how a run ends: ctx.exit(code) or the return of the handler (code 0), or an
\* exception nothing catches, which ends the interpreter with status 1
Exit(code) == [kind |-> "exit", code |-> code, exception |-> "none"]
Uncaught(e) == [kind |-> "uncaught", code |-> 1, exception |-> e]

\* `asked` is the query handed to the upstream service, None when the run never
\* reaches it; `results` is the list the handler got from its search
Run(out, err, end) ==
    [stdout |-> out, stderr |-> err, end |-> end, asked |-> None, results |-> <<>>]
Asked(q, r) == [r EXCEPT !.asked = Some(q)]
Found(results, r) == [r EXCEPT !.results = results]

\* the query after `if stdin:` (lines 172-178, 284-290, 387-393); None stands for
\* the branch that reports the missing input and exits
StdinOnTerminal(inv) == inv.stdin /\ inv.stdin_isatty
QueryAfterStdin(inv) == IF inv.stdin THEN Some(Strip(inv.stdin_text)) ELSE inv.query

\* the parameters of search_publications (scholar.py, lines 142-147) and the
\* keywords of the call in search_cmd (lines 204-211), the query being positional
SEARCH_PUBLICATIONS_PARAMS == {"query", "limit", "year_start", "year_end"}
SEARCH_CMD_KEYWORDS == {"limit", "year_start", "year_end", "sort_by"}

\* a call with a keyword that is not a parameter raises TypeError
AcceptsKeywords(params, keywords) == keywords \subseteq params

\* list(search_...(...)): the generator is consumed to its end
ListSearch(fn, upstream, fault, limit) ==
    LET s == Consume(StartSearch(fn, upstream, fault, limit))
    IN  IF s.raised # None THEN Raise(Val(s.raised), <<>>) ELSE Ok(s.produced)

\* lines 190-200
FinalQuery(inv, q) ==
    IF inv.exact # <<>> \/ inv.exclude # <<>> \/ Truthy(inv.intitle)
    THEN LET parts == SplitOn(OR_SEP, q)
             ts == IF Contains(OR_SEP, q)
                   THEN [i \in 1..Len(parts) |-> Strip(parts[i])]
                   ELSE <<q>>
         IN  build_query(ts,
                         IF inv.exact # <<>> THEN Some(inv.exact) ELSE None,
                         IF inv.exclude # <<>> THEN Some(inv.exclude) ELSE None,
                         inv.intitle)
    ELSE q

\* lines 224-237: `if not quiet` is tested for every publication
RECURSIVE PublicationBlocks(_, _, _, _)
PublicationBlocks(results, i, quiet, color) ==
    IF i > Len(results) THEN <<>>
    ELSE (IF ~quiet THEN PublicationLines(i, results[i], color) ELSE <<>>)
             \o PublicationBlocks(results, i + 1, quiet, color)

\* lines 170-237
search_cmd(inv) ==
    IF StdinOnTerminal(inv)
    THEN Run(<<>>, EchoLines(<<MESSAGE.stdin, MESSAGE.fix_stdin_search>>), Exit(1))
    ELSE LET q == QueryAfterStdin(inv)
         IN  IF ~Truthy(q)
             THEN Run(<<>>, EchoLines(<<MESSAGE.missing_query, MESSAGE.fix_query_search>>), Exit(1))
             ELSE LET final_query == FinalQuery(inv, Val(q))
                      call == ListSearch("search_publications",
                                         inv.upstream, inv.fault, inv.limit)
                  IN  IF ~AcceptsKeywords(SEARCH_PUBLICATIONS_PARAMS, SEARCH_CMD_KEYWORDS)
                      THEN Run(<<>>, <<>>, Uncaught("TypeError"))
                      ELSE Asked(final_query,
                           IF call.kind # "ok" THEN Run(<<>>, <<>>, Uncaught(call.kind))
                           ELSE Found(call.value,
                           IF call.value = <<>>
                           THEN Run(IF ~inv.quiet THEN EchoLines(<<MESSAGE.no_results>>)
                                    ELSE <<>>, <<>>, Exit(0))
                           ELSE IF inv.json_output
                           THEN Run(<<EchoJson(call.value)>>, <<>>, Exit(0))
                           ELSE Run(EchoLines(PublicationBlocks(call.value, 1,
                                                                inv.quiet, inv.color)),
                                    <<>>, Exit(0))))

\* the parameters of search_authors (scholar.py, line 189) and the keywords of the
\* call in author_cmd (line 308)
SEARCH_AUTHORS_PARAMS == {"query", "limit"}
AUTHOR_CMD_KEYWORDS == {"limit"}

\* lines 319-330
RECURSIVE AuthorBlocks(_, _, _)
AuthorBlocks(results, i, quiet) ==
    IF i > Len(results) THEN <<>>
    ELSE (IF ~quiet THEN AuthorLines(i, results[i]) ELSE <<>>)
             \o AuthorBlocks(results, i + 1, quiet)

\* lines 310-330 with an exit code for the empty result
AuthorOutputEmptyFails(inv, results) ==
    IF results = <<>>
    THEN Run(IF ~inv.quiet THEN EchoLines(<<MESSAGE.no_authors>>) ELSE <<>>, <<>>, Exit(1))
    ELSE IF inv.json_output
    THEN Run(<<EchoJson(results)>>, <<>>, Exit(0))
    ELSE Run(EchoLines(AuthorBlocks(results, 1, inv.quiet)), <<>>, Exit(0))

\* lines 310-330, from the results on
AuthorOutput(inv, results) ==
    Found(results,
        IF results = <<>>
        THEN Run(IF ~inv.quiet THEN EchoLines(<<MESSAGE.no_authors>>) ELSE <<>>,
                 <<>>, Exit(0))
        ELSE IF inv.json_output
        THEN Run(<<EchoJson(results)>>, <<>>, Exit(0))
        ELSE Run(EchoLines(AuthorBlocks(results, 1, inv.quiet)), <<>>, Exit(0)))

\* lines 281-330
author_cmd(inv) ==
    IF StdinOnTerminal(inv)
    THEN Run(<<>>, EchoLines(<<MESSAGE.stdin, MESSAGE.fix_stdin_author>>), Exit(1))
    ELSE LET q == QueryAfterStdin(inv)
         IN  IF ~Truthy(q) /\ ~Truthy(inv.scholar_id)
             THEN Run(<<>>, EchoLines(<<MESSAGE.query_or_id, MESSAGE.fix_query_or_id>>),
                      Exit(1))
             ELSE IF Truthy(inv.scholar_id)
             THEN LET author == get_author_details(inv.lookup, inv.fill)
                  IN  Asked(Val(inv.scholar_id),
                      IF author.kind # "ok" THEN Run(<<>>, <<>>, Uncaught(author.kind))
                      ELSE IF author.value = None
                      THEN Run(<<>>, EchoLines(<<MESSAGE.author_not_found>>), Exit(1))
                      ELSE AuthorOutput(inv, <<Val(author.value)>>))
             ELSE LET call == ListSearch("search_authors",
                                         inv.upstream, inv.fault, inv.limit)
                  IN  IF ~AcceptsKeywords(SEARCH_AUTHORS_PARAMS, AUTHOR_CMD_KEYWORDS)
                      THEN Run(<<>>, <<>>, Uncaught("TypeError"))
                      ELSE Asked(IF Truthy(q) THEN Val(q) ELSE <<>>,
                           IF call.kind # "ok" THEN Run(<<>>, <<>>, Uncaught(call.kind))
                           ELSE AuthorOutput(inv, call.value))

\* lines 421-424: one citation is echoed per book until book.cite raises
RECURSIVE CiteLoop(_, _, _)
CiteLoop(results, st, out) ==
    IF results = <<>> THEN Run(out, <<>>, Exit(0))
    ELSE LET c == cite(Head(results), st)
         IN  IF c.kind # "ok" THEN Run(out, <<>>, Uncaught(c.kind))
             ELSE CiteLoop(Tail(results), st, Append(out, EchoText(c.value)))

\* lines 426-446
RECURSIVE BookBlocks(_, _, _, _)
BookBlocks(results, i, quiet, color) ==
    IF i > Len(results) THEN <<>>
    ELSE (IF ~quiet THEN BookLines(i, results[i], color) ELSE <<>>)
             \o BookBlocks(results, i + 1, quiet, color)

\* lines 406-410 with `except OSError` added to the handler
BooksSearchFailedAlsoOSError(inv, e) ==
    IF e.kind \in ValueErrors \cup {"URLError"}
    THEN Run(<<>>, EchoLines(<<MESSAGE.error \o e.value>>), Exit(1))
    ELSE Run(<<>>, <<>>, Uncaught(e.kind))

\* lines 406-410: what books_cmd does with the exception e of search_books;
\* str(e) is the message of the exception
BooksSearchFailed(inv, e) ==
    IF e.kind \in ValueErrors
    THEN Run(<<>>, EchoLines(<<MESSAGE.error \o e.value>>), Exit(1))
    ELSE Run(<<>>, <<>>, Uncaught(e.kind))

\* lines 384-446
books_cmd(inv) ==
    IF StdinOnTerminal(inv)
    THEN Run(<<>>, EchoLines(<<MESSAGE.stdin, MESSAGE.fix_stdin_books>>), Exit(1))
    ELSE LET q == QueryAfterStdin(inv)
         IN  IF ~Truthy(q)
             THEN Run(<<>>, EchoLines(<<MESSAGE.missing_query, MESSAGE.fix_query_books>>), Exit(1))
             ELSE LET call == search_books(inv.env_key, inv.limit, inv.response)
                  IN  IF get_api_key(inv.env_key).kind # "ok"
                      THEN BooksSearchFailed(inv, call)
                      ELSE Asked(Val(q),
                      IF call.kind # "ok" THEN BooksSearchFailed(inv, call)
                      ELSE Found(call.value,
                      IF call.value = <<>>
                      THEN Run(IF ~inv.quiet THEN EchoLines(<<MESSAGE.no_results>>) ELSE <<>>,
                               <<>>, Exit(0))
                      ELSE IF inv.json_output
                      THEN Run(<<EchoJson(call.value)>>, <<>>, Exit(0))
                      ELSE IF Truthy(inv.cite)
                      THEN CiteLoop(call.value, Val(inv.cite), <<>>)
                      ELSE Run(EchoLines(BookBlocks(call.value, 1, inv.quiet, inv.color)),
                               <<>>, Exit(0))))

-----------------------------------------------------------------------------
(* the inputs of the subcommands *)

MaxCliResults == 2


\* a run before anything is chosen: no argument, no option, standard input a
\* terminal, no API key, upstream services with nothing to return
NoInvocation ==
    [cmd |-> "none", quiet |-> FALSE, query |-> None,
     stdin |-> FALSE, stdin_isatty |-> TRUE, stdin_text |-> <<>>,
     exact |-> <<>>, exclude |-> <<>>, intitle |-> None,
     limit |-> 10, json_output |-> FALSE, cite |-> None, scholar_id |-> None,
     color |-> FALSE, upstream |-> <<>>, fault |-> None,
     lookup |-> Ok(None), fill |-> Ok(None),
     env_key |-> None, response |-> [kind |-> "json_object", items |-> None]]

NotStarted == [kind |-> "running", code |-> 0, exception |-> "none"]

\* QUERY absent, empty, or a query
QueryArgs == {None, Some(<<>>), Some(<<"q">>)}

\* no --stdin; --stdin on a terminal; --stdin with a query or a blank line piped in
StdinModes ==
    {<<FALSE, TRUE, <<>> >>, <<TRUE, TRUE, <<>> >>,
     <<TRUE, FALSE, <<" ", "q", "\n">> >>, <<TRUE, FALSE, <<"\n">> >>}

WithStdin(inv, sm) ==
    [inv EXCEPT !.stdin = sm[1], !.stdin_isatty = sm[2], !.stdin_text = sm[3]]

\* --exact, --exclude and --intitle: none, one --exact, one --intitle with --exclude
HelperOptions ==
    {<< <<>>, <<>>, None >>, << <<S_job_satisfaction>>, <<>>, None >>,
     << <<>>, <<S_HRM>>, Some(S_the_Netherlands) >>}

SearchInvocations ==
    {[WithStdin(NoInvocation, sm) EXCEPT
        !.cmd = "search", !.quiet = quiet, !.query = q, !.json_output = js,
        !.exact = ho[1], !.exclude = ho[2], !.intitle = ho[3],
        !.upstream = up, !.color = color] :
        quiet \in BOOLEAN, q \in QueryArgs \cup {Some(<<"a", " ", "O", "R", " ", "b">>)},
        sm \in StdinModes,
        js \in BOOLEAN, ho \in HelperOptions, color \in BOOLEAN,
        up \in ListsUpTo(PubResults, MaxCliResults - 1)}

\* the upstream of author_cmd: a name search with its results, or a lookup by id
AuthorUpstreams ==
    {[upstream |-> up, fault |-> fault, lookup |-> Ok(None), fill |-> Ok(None)] :
        up \in ListsUpTo(AuthorResults, MaxCliResults), fault \in Faults}
    \cup
    {[upstream |-> <<>>, fault |-> None, lookup |-> lookup, fill |-> fill] :
        lookup \in UpstreamOutcomes, fill \in UpstreamOutcomes}

AuthorInvocations ==
    {[WithStdin(NoInvocation, sm) EXCEPT
        !.cmd = "author", !.quiet = quiet, !.query = q, !.json_output = js,
        !.scholar_id = id, !.limit = limit,
        !.upstream = u.upstream, !.fault = u.fault, !.lookup = u.lookup, !.fill = u.fill] :
        quiet \in BOOLEAN, q \in QueryArgs, sm \in StdinModes, js \in BOOLEAN,
        id \in {None, Some(<<>>), Some(S_XrH4VJUAAAAJ)}, limit \in {1, 5},
        u \in AuthorUpstreams}

\* an item with every key and three identifiers; an item with no key; an item
\* whose first author is an empty name, with empty and zero values
BookItems ==
    {[volumeInfo |-> Some(
        [title |-> Some(S_Title), authors |-> Some(<<S_Jane_Q_Public>>),
         publisher |-> Some(S_ACME), publishedDate |-> Some(S_2020_05_01),
         description |-> Some(<<"d">>), pageCount |-> Some(320),
         categories |-> Some(<<<<"A","I">>, <<"M","L">>>>),
         previewLink |-> Some(<<"h", ":", "/", "/", "b">>),
         infoLink |-> Some(<<"h", ":", "/", "/", "b">>),
         industryIdentifiers |-> Some(<<
            [type |-> Some(TYPE_ISBN_10), identifier |-> Some(S_ISBN_10)],
            [type |-> Some(<<"I","S","S","N">>), identifier |-> Some(<<"1">>)],
            [type |-> Some(TYPE_ISBN_13), identifier |-> Some(S_ISBN_13)] >>)])],
     [volumeInfo |-> None],
     [volumeInfo |-> Some(
        [title |-> Some(S_T3), authors |-> Some(<< <<>>, <<"P","l","a","t","o">> >>),
         publisher |-> Some(<<>>), publishedDate |-> None,
         description |-> None, pageCount |-> Some(0),
         categories |-> Some(<<>>),
         previewLink |-> None, infoLink |-> Some(<<>>),
         industryIdentifiers |-> Some(<<
            [type |-> None, identifier |-> Some(S_ISBN_10)] >>)])]}

\* what the book service does: the request fails, or it answers bytes that are
\* not UTF-8, text that is not JSON, a JSON array, or a JSON object
Responses ==
    {[kind |-> k, items |-> None] :
        k \in {"URLError", "undecodable", "not_json", "json_array"}}
    \cup
    {[kind |-> "json_object", items |-> items] :
        items \in OptionalOf(ListsUpTo(BookItems, MaxCliResults))}

MaxIdentifiers == 2

S_ISBN_10_b == <<"0","1","9","8","5","3","4","5","3","1">>

\* entries of industryIdentifiers: two ISBN-10, an ISBN-13, an ISBN-13 entry
\* without a value, an ISSN and an entry without a type
Identifiers ==
    {[type |-> Some(TYPE_ISBN_10), identifier |-> Some(S_ISBN_10)],
     [type |-> Some(TYPE_ISBN_10), identifier |-> Some(S_ISBN_10_b)],
     [type |-> Some(TYPE_ISBN_13), identifier |-> Some(S_ISBN_13)],
     [type |-> Some(TYPE_ISBN_13), identifier |-> None],
     [type |-> Some(<<"I","S","S","N">>), identifier |-> Some(S_ISBN_10)],
     [type |-> None, identifier |-> Some(S_ISBN_13)]}

\* items that differ by their identifiers only
IdentifierItems ==
    {[volumeInfo |-> Some([EMPTY_VOLUME_INFO EXCEPT
        !.title = Some(S_Title), !.industryIdentifiers = ids])] :
        ids \in OptionalOf(ListsUpTo(Identifiers, MaxIdentifiers))}

\* the calls of search_books: every limit against every answer of the service,
\* and answers of one or two items with every list of identifiers
BooksCalls ==
    {[env_key |-> key, limit |-> limit, response |-> response] :
        key \in {None, Some(<<>>), Some(<<"k", "e", "y">>)},
        limit \in Limits \cup {API_MAX_RESULTS + 1}, response \in Responses}
    \cup
    {[env_key |-> Some(<<"k", "e", "y">>), limit |-> API_MAX_RESULTS,
      response |-> [kind |-> "json_object", items |-> Some(items)]] :
        items \in {<<a>> : a \in IdentifierItems}
                  \cup {<<a, b>> : a, b \in IdentifierItems}}

BooksInvocations ==
    {[WithStdin(NoInvocation, sm) EXCEPT
        !.cmd = "books", !.quiet = quiet, !.query = q, !.json_output = js,
        !.cite = st, !.color = color, !.env_key = key, !.response = response] :
        quiet \in BOOLEAN, q \in QueryArgs, sm \in StdinModes, js \in BOOLEAN,
        st \in {None, Some(STYLE_APA), Some(STYLE_MLA)}, color \in BOOLEAN,
        key \in {None, Some(<<>>), Some(<<"k", "e", "y">>)}, response \in Responses}

-----------------------------------------------------------------------------
(* the state machine *)

NoCitation == [kind |-> "none", value |-> <<>>]
NoVolumes ==
    [env_key |-> None, limit |-> 0, response |-> [kind |-> "none", items |-> None],
     max_results |-> 0, outcome |-> [kind |-> "none", value |-> <<>>]]
NoBook == [title |-> <<>>, authors |-> <<>>, publisher |-> None, published_date |-> None]

Init ==
    /\ pc = "idle"
    /\ terms = <<>>
    /\ exact_phrases = None
    /\ exclude_terms = None
    /\ intitle = None
    /\ query = None
    /\ book = NoBook
    /\ style = <<>>
    /\ authors_str = None
    /\ citation = NoCitation
    /\ year_ret = None
    /\ isbn_ret = None
    /\ search = StartSearch("none", <<>>, None, 0)
    /\ detail = NoDetail
    /\ invocation = NoInvocation
    /\ run = Run(<<>>, <<>>, NotStarted)
    /\ volumes = NoVolumes

\* one call of build_query(terms, exact_phrases, exclude_terms, intitle)
BuildQueryCall ==
    /\ pc = "idle"
    /\ \E c \in QueryCalls :
        /\ terms' = c.terms
        /\ exact_phrases' = c.exact_phrases
        /\ exclude_terms' = c.exclude_terms
        /\ intitle' = c.intitle
        /\ query' = Some(build_query(c.terms, c.exact_phrases, c.exclude_terms, c.intitle))
    /\ pc' = "build_query"
    /\ UNCHANGED <<citeVars, propVars, scholarVars, cliVars, booksVars>>

\* one call of book.cite(style)
CiteCall ==
    /\ pc = "idle"
    /\ \E b \in Books, st \in Styles :
        LET r == cite(b, st)
        IN  /\ book' = b
            /\ style' = st
            /\ authors_str' = r.authors
            /\ citation' = [kind |-> r.kind, value |-> r.value]
    /\ pc' = "cite"
    /\ UNCHANGED <<queryVars, propVars, scholarVars, cliVars, booksVars>>

\* the derived attributes book.year and book.isbn of one Book are read
PropertyCall ==
    /\ pc = "idle"
    /\ \E b \in PropertyBooks :
        /\ book' = b
        /\ year_ret' = Some(year(b))
        /\ isbn_ret' = isbn(b)
    /\ pc' = "property"
    /\ UNCHANGED <<queryVars, style, authors_str, citation, scholarVars, cliVars, booksVars>>

\* search_publications(query, limit) or search_authors(query, limit) is called and
\* its generator created; nothing runs before the first item is asked for
SearchCall ==
    /\ pc = "idle"
    /\ \E s \in SearchCalls : search' = s
    /\ pc' = "searching"
    /\ UNCHANGED <<queryVars, citeVars, propVars, detail, cliVars, booksVars>>

\* the consumer asks the generator for its next item
SearchNext ==
    /\ pc = "searching"
    /\ search' = SearchStep(search)
    /\ pc' = IF search'.done THEN "searched" ELSE "searching"
    /\ UNCHANGED <<queryVars, citeVars, propVars, detail, cliVars, booksVars>>

\* get_author_details(scholar_id)
DetailsCall ==
    /\ pc = "idle"
    /\ \E id \in ScholarIds, lookup \in UpstreamOutcomes, fill \in UpstreamOutcomes :
        detail' = [scholar_id |-> id, lookup |-> lookup, fill |-> fill,
                   outcome |-> get_author_details(lookup, fill)]
    /\ pc' = "detailed"
    /\ UNCHANGED <<queryVars, citeVars, propVars, search, cliVars, booksVars>>

\* google-scholar-tool [-q] search ...
SearchCmd ==
    /\ pc = "idle"
    /\ \E inv \in SearchInvocations :
        /\ invocation' = inv
        /\ run' = search_cmd(inv)
    /\ pc' = "exited"
    /\ UNCHANGED <<queryVars, citeVars, propVars, scholarVars, booksVars>>

\* google-scholar-tool [-q] author ...
AuthorCmd ==
    /\ pc = "idle"
    /\ \E inv \in AuthorInvocations :
        /\ invocation' = inv
        /\ run' = author_cmd(inv)
    /\ pc' = "exited"
    /\ UNCHANGED <<queryVars, citeVars, propVars, scholarVars, booksVars>>

\* google-scholar-tool [-q] books ...
BooksCmd ==
    /\ pc = "idle"
    /\ \E inv \in BooksInvocations :
        /\ invocation' = inv
        /\ run' = books_cmd(inv)
    /\ pc' = "exited"
    /\ UNCHANGED <<queryVars, citeVars, propVars, scholarVars, booksVars>>

\* list(search_books(query, limit)) with GOOGLE_BOOKS_API_KEY as in env_key
SearchBooksCall ==
    /\ pc = "idle"
    /\ \E c \in BooksCalls :
        volumes' = [env_key |-> c.env_key, limit |-> c.limit, response |-> c.response,
                    max_results |-> MaxResults(c.limit),
                    outcome |-> search_books(c.env_key, c.limit, c.response)]
    /\ pc' = "books"
    /\ UNCHANGED <<queryVars, citeVars, propVars, scholarVars, cliVars>>

NextQuery == BuildQueryCall

SpecQuery == Init /\ [][NextQuery]_vars

NextCite == CiteCall

SpecCite == Init /\ [][NextCite]_vars

NextProperty == PropertyCall

SpecProperty == Init /\ [][NextProperty]_vars

NextSearch == SearchCall \/ SearchNext

SpecSearch == Init /\ [][NextSearch]_vars

NextDetails == DetailsCall

SpecDetails == Init /\ [][NextDetails]_vars

NextBooks == SearchBooksCall

SpecBooks == Init /\ [][NextBooks]_vars

NextCli == SearchCmd \/ AuthorCmd \/ BooksCmd

SpecCli == Init /\ [][NextCli]_vars

Next ==
    \/ SearchBooksCall
    \/ SearchCmd
    \/ AuthorCmd
    \/ BooksCmd
    \/ BuildQueryCall
    \/ CiteCall
    \/ PropertyCall
    \/ SearchCall
    \/ SearchNext
    \/ DetailsCall

Spec == Init /\ [][Next]_vars

-----------------------------------------------------------------------------
(* vocabulary of the properties *)

\* the concatenation of a list of strings
RECURSIVE Flatten(_)
Flatten(ss) == IF ss = <<>> THEN <<>> ELSE Head(ss) \o Flatten(Tail(ss))

\* the list ss with sep put between every two neighbours
Interleave(ss, sep) ==
    IF ss = <<>> THEN <<>>
    ELSE [i \in 1..(2 * Len(ss) - 1) |-> IF i % 2 = 1 THEN ss[(i + 1) \div 2] ELSE sep]

IsSubstring(p, s) ==
    \E i \in 0..(Len(s) - Len(p)) : SubSeq(s, i + 1, i + Len(p)) = p

Whitespace == {" ", "\t", "\n"}
HasWhitespace(s) == \E i \in 1..Len(s) : s[i] \in Whitespace

Quoted(s) == <<"\"">> \o s \o <<"\"">>

BuiltQuery == pc = "build_query"

\* an optional argument is given when it is neither None nor empty
Given(o) == o # None /\ Val(o) # <<>>
Phrases == IF Given(exact_phrases) THEN Val(exact_phrases) ELSE <<>>
Exclusions == IF Given(exclude_terms) THEN Val(exclude_terms) ELSE <<>>

\* the term group as the specification words it
SpecTermGroup ==
    IF Len(terms) = 1 THEN terms[1]
    ELSE <<"(">> \o Flatten(Interleave(terms, <<" ","O","R"," ">>)) \o <<")">>

\* the parts of the query: the term group, if any, then every phrase, each phrase
\* quoted or not as q says
QuotingChoices == [1..Len(Phrases) -> BOOLEAN]
SpecParts(q) ==
    (IF terms = <<>> THEN <<>> ELSE <<SpecTermGroup>>)
        \o [i \in 1..Len(Phrases) |-> IF q[i] THEN Quoted(Phrases[i]) ELSE Phrases[i]]

\* the suffixes as the specification words them
SpecIntitleSuffix ==
    IF Given(intitle)
    THEN <<" ","i","n","t","i","t","l","e",":">> \o Quoted(Val(intitle))
    ELSE <<>>
SpecExclusionSuffix ==
    Flatten([i \in 1..Len(Exclusions) |-> <<" ","-">> \o Exclusions[i]])
SpecSuffixes == SpecIntitleSuffix \o SpecExclusionSuffix

SpecAnd == <<" ","A","N","D"," ">>
NoAndInInputs ==
    /\ \A i \in 1..Len(terms) : ~IsSubstring(SpecAnd, terms[i])
    /\ \A i \in 1..Len(Phrases) : ~IsSubstring(SpecAnd, Phrases[i])

-----------------------------------------------------------------------------
(* C1: with terms only, build_query returns the single term itself, or the  *)
(* terms, unchanged and in input order, joined by " OR " inside parentheses. *)
C1_TermGroupOnly ==
    (BuiltQuery /\ terms # <<>> /\ Phrases = <<>> /\ ~Given(intitle) /\ Exclusions = <<>>)
        => Val(query) = SpecTermGroup

C1_Witness ==
    /\ BuiltQuery /\ Len(terms) = 2 /\ terms[1] # terms[2]
    /\ Phrases = <<>> /\ ~Given(intitle) /\ Exclusions = <<>>
    /\ Val(query) = <<"(","a"," ","b"," ","O","R"," ","A",")">>

(* C2: every exact phrase is quoted if and only if it contains whitespace,  *)
(* and with a term group present the group and the phrases, in input order, *)
(* are joined by " AND ".                                                    *)
C2_QuotedIffWhitespace ==
    (BuiltQuery /\ terms # <<>> /\ Phrases # <<>>)
        => LET q == [i \in 1..Len(Phrases) |-> HasWhitespace(Phrases[i])]
           IN  Val(query) = Flatten(Interleave(SpecParts(q), SpecAnd)) \o SpecSuffixes

(* C3, as claimed: when only the term group or only exact phrases (any      *)
(* number of them) are given, the result holds no " AND " and the parts are  *)
(* just concatenated.                                                        *)
C3_NoAndWithOneKind ==
    (BuiltQuery /\ NoAndInInputs /\ ((terms # <<>>) # (Phrases # <<>>)))
        => /\ ~IsSubstring(SpecAnd, Val(query))
           /\ \E q \in QuotingChoices :
                Val(query) = Flatten(SpecParts(q)) \o SpecSuffixes

(* C3, amended: " AND " stands between every two neighbouring parts, the    *)
(* term group being one part and every exact phrase one part; with a single  *)
(* part (terms only, or one phrase and no terms) the part is used as it is   *)
(* and holds no " AND ", and two or more phrases without terms are joined    *)
(* by " AND ".                                                               *)
C3_AndBetweenParts ==
    (BuiltQuery /\ NoAndInInputs)
        => \E q \in QuotingChoices :
            LET core == Flatten(Interleave(SpecParts(q), SpecAnd))
            IN  /\ Val(query) = core \o SpecSuffixes
                /\ Len(SpecParts(q)) <= 1 => ~IsSubstring(SpecAnd, core)
                /\ Len(SpecParts(q)) >= 2 => IsSubstring(SpecAnd, core)

C3_Witness ==
    /\ BuiltQuery /\ NoAndInInputs
    /\ terms = <<>> /\ Len(Phrases) = 2
    /\ IsSubstring(SpecAnd, Val(query))

(* C4: the result is the combined terms and phrases, then the intitle       *)
(* suffix when intitle is given, then one " -term" per exclusion in input    *)
(* order; nothing else is added.                                             *)
C4_SuffixOrder ==
    BuiltQuery
        => \E q \in QuotingChoices :
            Val(query) = Flatten(Interleave(SpecParts(q), SpecAnd))
                            \o SpecIntitleSuffix \o SpecExclusionSuffix

C4_Witness ==
    /\ BuiltQuery /\ terms # <<>> /\ Phrases # <<>>
    /\ Given(intitle) /\ Len(Exclusions) = 2 /\ Exclusions[1] # Exclusions[2]

(* C5: the call of the docstring returns the string the docstring shows,    *)
(* in which the term with a space stands in double quotes.                   *)
C5_DocstringExample ==
    (/\ BuiltQuery
     /\ terms = <<S_HRM, S_human_resource_management>>
     /\ exact_phrases = Some(<<S_job_satisfaction>>)
     /\ exclude_terms = None
     /\ intitle = Some(S_the_Netherlands))
        => Val(query) =
            <<"(">> \o S_HRM \o <<" ","O","R"," ">> \o Quoted(S_human_resource_management)
                \o <<")">> \o SpecAnd \o Quoted(S_job_satisfaction)
                \o <<" ","i","n","t","i","t","l","e",":">> \o Quoted(S_the_Netherlands)

-----------------------------------------------------------------------------
(* vocabulary of the citation properties *)

Cited == pc = "cite"
CitedAs(st) == pc = "cite" /\ style = st

\* the tokens of a name: its maximal runs of non-whitespace characters, in order
TokenStarts(s) ==
    {i \in 1..Len(s) : s[i] \notin Whitespace /\ (i = 1 \/ s[i - 1] \in Whitespace)}
TokenEnd(s, i) ==
    CHOOSE j \in i..Len(s) :
        /\ \A k \in i..j : s[k] \notin Whitespace
        /\ j = Len(s) \/ s[j + 1] \in Whitespace
SpecTokens(s) ==
    LET starts == TokenStarts(s)
        Nth(k) == CHOOSE i \in starts : Cardinality({x \in starts : x < i}) = k - 1
    IN  [k \in 1..Cardinality(starts) |-> SubSeq(s, Nth(k), TokenEnd(s, Nth(k)))]

Surname(name) == SpecTokens(name)[Len(SpecTokens(name))]
GivenTokens(name) == SubSeq(SpecTokens(name), 1, Len(SpecTokens(name)) - 1)
\* the first letter of every given-name token followed by "."
SpecInitials(name) ==
    [i \in 1..Len(GivenTokens(name)) |-> <<GivenTokens(name)[i][1]>> \o <<".">>]

AllButLast(ss) == SubSeq(ss, 1, Len(ss) - 1)

\* "Surname, I. I." for 2+ tokens, the name itself for one token
SpecApaAuthor(name) ==
    IF Len(SpecTokens(name)) >= 2
    THEN Surname(name) \o <<","," ">> \o Flatten(Interleave(SpecInitials(name), <<" ">>))
    ELSE name

\* "Surname, I.I."
SpecHarvardAuthor(name) ==
    Surname(name) \o <<","," ">> \o Flatten(SpecInitials(name))

\* "Surname, Given" with the given-name tokens in full
SpecSurnameGiven(name) ==
    Surname(name) \o <<","," ">> \o Flatten(Interleave(GivenTokens(name), <<" ">>))

\* the derived year and the publisher of the templates
SpecYear ==
    IF Given(book.published_date)
    THEN LET d == Val(book.published_date)
         IN  [i \in 1..(IF Len(d) > 4 THEN 4 ELSE Len(d)) |-> d[i]]
    ELSE <<"n",".","d",".">>
SpecPublisher ==
    IF Given(book.publisher) THEN Val(book.publisher)
    ELSE <<"P","u","b","l","i","s","h","e","r"," ","u","n","k","n","o","w","n">>

JanePublicBook ==
    [title |-> S_Title, authors |-> <<S_Jane_Q_Public>>,
     publisher |-> Some(S_ACME), published_date |-> Some(S_2020_05_01)]

-----------------------------------------------------------------------------
C7_MlaAuthors ==
    (/\ CitedAs(STYLE_MLA) /\ book.authors # <<>>
     /\ Len(SpecTokens(book.authors[1])) >= 2)
        => LET n == Len(book.authors)
               first == SpecSurnameGiven(book.authors[1])
           IN  /\ citation.kind = "ok"
               /\ authors_str = Some(
                   IF n = 1 THEN first
                   ELSE IF n = 2 THEN first \o <<","," ","a","n","d"," ">> \o book.authors[2]
                   ELSE first \o <<","," ","e","t"," ","a","l",".">>)

C7_Witness ==
    /\ CitedAs(STYLE_MLA) /\ Len(book.authors) = 2
    /\ book.authors[1] = S_Jane_Q_Public
    /\ Len(SpecTokens(book.authors[2])) = 2
    /\ authors_str = Some(<<"P","u","b","l","i","c",","," ","J","a","n","e"," ","Q",".",
                            ","," ","a","n","d"," ","A","n","n","\t","L","e","e">>)

(* C8: Harvard turns every author of 2+ tokens into "Surname, I.I."; two    *)
(* authors are joined by " and ", three or more by ", " with the last        *)
(* attached by " and " and no comma before it.                               *)
C8_HarvardAuthors ==
    (/\ CitedAs(STYLE_HARVARD) /\ book.authors # <<>>
     /\ \A i \in 1..Len(book.authors) : Len(SpecTokens(book.authors[i])) >= 2)
        => LET f == [i \in 1..Len(book.authors) |-> SpecHarvardAuthor(book.authors[i])]
               n == Len(f)
           IN  authors_str = Some(
                   IF n = 1 THEN f[1]
                   ELSE IF n = 2 THEN f[1] \o <<" ","a","n","d"," ">> \o f[2]
                   ELSE Flatten(Interleave(AllButLast(f), <<","," ">>))
                            \o <<" ","a","n","d"," ">> \o f[n])

C8_Witness ==
    /\ CitedAs(STYLE_HARVARD) /\ Len(book.authors) = 3
    /\ authors_str = Some(<<"P","u","b","l","i","c",","," ","J",".","Q",".",","," ",
                            "L","e","e",","," ","A","."," ","a","n","d"," ",
                            "P","u","b","l","i","c",","," ","J",".","Q",".">>)

(* C9: for every Book, cite("chicago") has the outcome of cite("mla"): the  *)
(* same string, or the same failure.                                         *)
C9_ChicagoIsMla ==
    CitedAs(STYLE_CHICAGO)
        => LET mla == cite(book, STYLE_MLA)
           IN  citation = [kind |-> mla.kind, value |-> mla.value]

C9_Witness ==
    /\ CitedAs(STYLE_CHICAGO) /\ citation.kind = "ok"
    /\ Len(book.authors) = 1 /\ Len(SpecTokens(book.authors[1])) = 3
    /\ book.publisher = None /\ book.published_date = None

(* C10: cite("apa") is "{authors} ({year}). {title}. {publisher}." and      *)
(* cite("harvard") is "{authors} ({year}) {title}. {publisher}.", with the   *)
(* derived year and "Publisher unknown" for an absent publisher; Jane Q.     *)
(* Public, 2020-05-01, ACME gives "Public, J. Q. (2020). Title. ACME.".      *)
C10_ApaHarvardTemplates ==
    /\ CitedAs(STYLE_APA)
        => /\ citation.kind = "ok"
           /\ authors_str # None
           /\ citation.value =
                Val(authors_str) \o <<" ","(">> \o SpecYear \o <<")","."," ">>
                    \o book.title \o <<"."," ">> \o SpecPublisher \o <<".">>
    /\ CitedAs(STYLE_HARVARD)
        => /\ citation.kind = "ok"
           /\ authors_str # None
           /\ citation.value =
                Val(authors_str) \o <<" ","(">> \o SpecYear \o <<")"," ">>
                    \o book.title \o <<"."," ">> \o SpecPublisher \o <<".">>
    /\ (CitedAs(STYLE_APA) /\ book = JanePublicBook)
        => citation.value =
            <<"P","u","b","l","i","c",","," ","J","."," ","Q","."," ","(","2","0","2","0",")",
              "."," ","T","i","t","l","e","."," ","A","C","M","E",".">>

C10_Witness ==
    /\ CitedAs(STYLE_APA) /\ book = JanePublicBook
    /\ citation.kind = "ok"

(* C11: the MLA and Chicago citation is "{authors}{sep}{title}. {publisher},  *)
(* {year}." with sep a single space exactly when the author string ends in   *)
(* ".", and ". " otherwise: no second period follows the author part, and    *)
(* the author part without its final period is followed by ". " and the      *)
(* title.                                                                    *)
C11_MlaSeparator ==
    (Cited /\ style \in {STYLE_MLA, STYLE_CHICAGO} /\ citation.kind = "ok")
        => LET a == Val(authors_str)
               v == citation.value
               ends == a # <<>> /\ a[Len(a)] = "."
               sep == IF ends THEN <<" ">> ELSE <<"."," ">>
               stem == IF ends THEN SubSeq(a, 1, Len(a) - 1) ELSE a
               rest == book.title \o <<"."," ">> \o SpecPublisher
                           \o <<","," ">> \o SpecYear \o <<".">>
           IN  /\ authors_str # None
               /\ v = a \o sep \o rest
               /\ ~(ends /\ v[Len(a) + 1] = ".")
               /\ v = stem \o <<"."," ">> \o rest

C11_Witness ==
    /\ CitedAs(STYLE_MLA) /\ book = JanePublicBook
    /\ citation.value =
        <<"P","u","b","l","i","c",","," ","J","a","n","e"," ","Q","."," ",
          "T","i","t","l","e","."," ","A","C","M","E",","," ","2","0","2","0",".">>

\* the lower-case letter of every upper-case letter
SpecCasePairs ==
    {<<"A","a">>, <<"B","b">>, <<"C","c">>, <<"D","d">>, <<"E","e">>, <<"F","f">>,
     <<"G","g">>, <<"H","h">>, <<"I","i">>, <<"J","j">>, <<"K","k">>, <<"L","l">>,
     <<"M","m">>, <<"N","n">>, <<"O","o">>, <<"P","p">>, <<"Q","q">>, <<"R","r">>,
     <<"S","s">>, <<"T","t">>, <<"U","u">>, <<"V","v">>, <<"W","w">>, <<"X","x">>,
     <<"Y","y">>, <<"Z","z">>}
SpecFold(s) ==
    [i \in 1..Len(s) |->
        IF \E p \in SpecCasePairs : p[1] = s[i]
        THEN (CHOOSE p \in SpecCasePairs : p[1] = s[i])[2]
        ELSE s[i]]
SpecStyles ==
    {<<"a","p","a">>, <<"m","l","a">>, <<"c","h","i","c","a","g","o">>,
     <<"h","a","r","v","a","r","d">>}

(* C12: a style that is none of apa, mla, chicago, harvard once lower-cased  *)
(* raises ValueError with a message holding the style as given and the four  *)
(* valid styles; a style that is one of them in any letter case gives the    *)
(* outcome of the lower-case style and no ValueError.                        *)
C12_CiteDispatch ==
    Cited
        => IF SpecFold(style) \in SpecStyles
           THEN LET lower == cite(book, SpecFold(style))
                IN  /\ citation = [kind |-> lower.kind, value |-> lower.value]
                    /\ citation.kind # "ValueError"
           ELSE /\ citation.kind = "ValueError"
                /\ IsSubstring(style, citation.value)
                /\ \A s \in SpecStyles : IsSubstring(s, citation.value)

C12_Witness ==
    /\ Cited /\ style = <<"b","i","b","t","e","x">>
    /\ citation.kind = "ValueError"
    /\ IsSubstring(<<"a","p","a",","," ","m","l","a",","," ","c","h","i","c","a","g","o",
                     ","," ","h","a","r","v","a","r","d">>, citation.value)

C12_WitnessUpperCase ==
    /\ Cited /\ style = <<"A","P","A">> /\ citation.kind = "ok"

(* C13: with an empty author list the author part is "Unknown Author" in     *)
(* each of the four styles and the rest of the template is as for any book.  *)
C13_UnknownAuthor ==
    (Cited /\ style \in SpecStyles /\ book.authors = <<>>)
        => LET unknown == <<"U","n","k","n","o","w","n"," ","A","u","t","h","o","r">>
           IN  /\ authors_str = Some(unknown)
               /\ citation.kind = "ok"
               /\ citation.value =
                    IF style = <<"a","p","a">>
                    THEN unknown \o <<" ","(">> \o SpecYear \o <<")","."," ">>
                            \o book.title \o <<"."," ">> \o SpecPublisher \o <<".">>
                    ELSE IF style = <<"h","a","r","v","a","r","d">>
                    THEN unknown \o <<" ","(">> \o SpecYear \o <<")"," ">>
                            \o book.title \o <<"."," ">> \o SpecPublisher \o <<".">>
                    ELSE unknown \o <<"."," ">> \o book.title \o <<"."," ">>
                            \o SpecPublisher \o <<","," ">> \o SpecYear \o <<".">>

C13_Witness ==
    /\ CitedAs(STYLE_CHICAGO) /\ book.authors = <<>>
    /\ book.publisher = None /\ book.published_date = None
    /\ citation.kind = "ok"

PropertyRead == pc = "property"

(* C14: book.year is the first 4 characters of published_date, the whole     *)
(* string when it is shorter, and "n.d." when published_date is absent or    *)
(* empty; "1999" gives "1999".                                               *)
C14_Year ==
    PropertyRead
        => /\ year_ret = Some(SpecYear)
           /\ book.published_date = Some(<<"1","9","9","9">>)
                => year_ret = Some(<<"1","9","9","9">>)
           /\ book.published_date \in {None, Some(<<>>)}
                => year_ret = Some(<<"n",".","d",".">>)

C14_Witness ==
    /\ PropertyRead /\ book.published_date = Some(S_2020_05_01)
    /\ year_ret = Some(<<"2","0","2","0">>)

(* C15: book.isbn is the ISBN-13 whenever there is one, also beside an       *)
(* ISBN-10; the ISBN-10 when there is only that; nothing when there is       *)
(* neither.                                                                  *)
C15_Isbn ==
    PropertyRead
        => /\ Given(book.isbn_13) => isbn_ret = book.isbn_13
           /\ (~Given(book.isbn_13) /\ Given(book.isbn_10)) => isbn_ret = book.isbn_10
           /\ (~Given(book.isbn_13) /\ ~Given(book.isbn_10)) => ~Given(isbn_ret)

C15_Witness ==
    /\ PropertyRead /\ book.isbn_10 = Some(S_ISBN_10) /\ book.isbn_13 = Some(S_ISBN_13)
    /\ isbn_ret = Some(S_ISBN_13)

-----------------------------------------------------------------------------
(* the searches: claim C16 *)

Min(a, b) == IF a < b THEN a ELSE b

\* a search whose generator ended without an exception
Searched == pc = "searched" /\ search.raised = None

\* the value of an upstream key, or the documented default when the key is absent
OrDefault(o, d) == IF o # None THEN o[1] ELSE d

\* the publication record of an upstream item
SpecPublicationOf(item) ==
    IF item.bib = None
    THEN [title |-> S_Unknown, authors |-> <<>>, year |-> None, abstract |-> None,
          citations |-> OrDefault(item.num_citations, 0),
          url |-> item.eprint_url, pub_url |-> item.pub_url]
    ELSE [title |-> OrDefault(item.bib[1].title, S_Unknown),
          authors |-> OrDefault(item.bib[1].author, <<>>),
          year |-> item.bib[1].pub_year, abstract |-> item.bib[1].abstract,
          citations |-> OrDefault(item.num_citations, 0),
          url |-> item.eprint_url, pub_url |-> item.pub_url]

\* the author record of an upstream item
SpecAuthorOf(item) ==
    [name |-> OrDefault(item.name, S_Unknown), affiliation |-> item.affiliation,
     email_domain |-> item.email_domain, citations |-> OrDefault(item.citedby, 0),
     h_index |-> OrDefault(item.hindex, 0), i10_index |-> OrDefault(item.i10index, 0),
     interests |-> OrDefault(item.interests, <<>>), scholar_id |-> item.scholar_id]

SpecRecordOf(fn, item) ==
    IF fn = "search_authors" THEN SpecAuthorOf(item) ELSE SpecPublicationOf(item)

\* C16: for an upstream sequence of n items and a limit L >= 0, search_publications
\* and search_authors each produce exactly min(n, L) records, the mappings of the
\* first min(n, L) upstream items in upstream order.
C16_LimitEnforcement ==
    (Searched /\ search.limit >= 0) =>
        LET k == Min(Len(search.upstream), search.limit)
        IN  /\ Len(search.produced) = k
            /\ \A i \in 1..k :
                   search.produced[i] = SpecRecordOf(search.fn, search.upstream[i])

\* ten upstream items and limit 3 give exactly 3 records
C16_Witness ==
    /\ Searched
    /\ Len(search.upstream) = 10
    /\ search.limit = 3
    /\ Len(search.produced) = 3

-----------------------------------------------------------------------------
(* author details: claim C17 *)

Detailed == pc = "detailed"

UpstreamFailed == detail.lookup.kind # "ok" \/ detail.fill.kind # "ok"

\* C17: get_author_details never propagates an upstream fault: whenever the lookup
\* by identifier or the fill step raises, it returns None instead of raising, and
\* it returns an Author record only when both upstream steps succeed.
C17_NoFaultPropagates ==
    Detailed =>
        /\ detail.outcome.kind = "ok"
        /\ UpstreamFailed => detail.outcome.value = None
        /\ detail.outcome.value # None =>
               /\ ~UpstreamFailed
               /\ detail.outcome.value = <<SpecAuthorOf(detail.fill.value[1])>>

\* the lookup succeeds and the fill step raises: nothing is returned
C17_Witness ==
    /\ Detailed
    /\ detail.lookup.kind = "ok"
    /\ detail.lookup.value # None
    /\ detail.fill.kind = "ConnectionError"
    /\ detail.outcome = [kind |-> "ok", value |-> None]

-----------------------------------------------------------------------------
(* the subcommands: claims C18, C19, C20 *)

\* a run of a subcommand has ended, by an exit code or by an uncaught exception
Exited == pc = "exited"
Completed == Exited /\ run.end.kind = "exit"
Crashed == Exited /\ run.end.kind = "uncaught"

\* an optional argument that is given and not empty
Supplied(o) == o # None /\ o # <<<<>>>>

\* the text piped into standard input without its surrounding whitespace
Trimmed(s) ==
    LET inner == {i \in 1..Len(s) : s[i] \notin Whitespace}
    IN  IF inner = {} THEN <<>>
        ELSE SubSeq(s, CHOOSE i \in inner : \A j \in inner : i <= j,
                       CHOOSE i \in inner : \A j \in inner : i >= j)

\* the query the run has to work with: with --stdin the text piped in (none when
\* standard input is a terminal), else the QUERY argument
SpecQueryGiven ==
    IF invocation.stdin
    THEN ~invocation.stdin_isatty /\ Trimmed(invocation.stdin_text) # <<>>
    ELSE Supplied(invocation.query)

\* --stdin was asked for and standard input is a terminal
SpecStdinUnusable == invocation.stdin /\ invocation.stdin_isatty

\* the required input is missing: no query, or for author neither a query nor a
\* scholar id
MissingInput ==
    \/ SpecStdinUnusable
    \/ /\ ~SpecQueryGiven
       /\ ~(invocation.cmd = "author" /\ Supplied(invocation.scholar_id))

\* author --scholar-id whose lookup gives no author record
AuthorNotFoundById ==
    /\ invocation.cmd = "author"
    /\ ~MissingInput
    /\ Supplied(invocation.scholar_id)
    /\ \/ invocation.lookup.kind # "ok"
       \/ invocation.fill.kind # "ok"
       \/ invocation.fill.value = None

\* the books subcommand without a usable API key
MissingCredential ==
    /\ invocation.cmd = "books"
    /\ ~MissingInput
    /\ ~Supplied(invocation.env_key)

\* the book service answers something that is not UTF-8 text or not JSON
MalformedResponse ==
    /\ invocation.cmd = "books"
    /\ ~MissingInput
    /\ Supplied(invocation.env_key)
    /\ invocation.response.kind \in {"undecodable", "not_json"}

\* stderr holds exactly one line, which starts with "Error: "
ErrorReported ==
    /\ Len(run.stderr) = 1
    /\ run.stderr[1].json = None
    /\ Len(run.stderr[1].text) >= 7
    /\ SubSeq(run.stderr[1].text, 1, 7) = <<"E","r","r","o","r",":"," ">>

\* C18 as stated: exit code 1 when the required input is missing, and 0 in every
\* other completed run.
C18_OneOnlyForMissingInput ==
    Exited =>
        /\ MissingInput => Completed /\ run.end.code = 1
        /\ (Completed /\ ~MissingInput) => run.end.code = 0

\* C18, amended: exit code 1 when the required input is missing, when author
\* --scholar-id finds no author, and when the book search raises a ValueError (no
\* API key, or a response that is not UTF-8 or not JSON); exit code 0 in every other
\* run that ends without an uncaught exception, runs with zero results included.
C18_ExitCodes ==
    Exited =>
        /\ (MissingInput \/ AuthorNotFoundById \/ MissingCredential \/ MalformedResponse)
               => Completed /\ run.end.code = 1
        /\ (Completed /\ ~MissingInput /\ ~AuthorNotFoundById
                      /\ ~MissingCredential /\ ~MalformedResponse)
               => run.end.code = 0

\* a lookup by id that finds nobody ends with code 1
C18_Witness ==
    /\ Completed
    /\ AuthorNotFoundById
    /\ run.end.code = 1
    /\ run.stdout = <<>>

\* a name search with zero results ends with code 0
C18_WitnessZeroResults ==
    /\ Completed
    /\ invocation.cmd = "author"
    /\ ~Supplied(invocation.scholar_id)
    /\ invocation.upstream = <<>>
    /\ run.end.code = 0

\* the request to the book service fails
NetworkFailure ==
    /\ invocation.cmd = "books"
    /\ ~MissingInput
    /\ Supplied(invocation.env_key)
    /\ invocation.response.kind = "URLError"

\* the book service answers JSON that is not an object
NotAnObject ==
    /\ invocation.cmd = "books"
    /\ ~MissingInput
    /\ Supplied(invocation.env_key)
    /\ invocation.response.kind = "json_array"

\* an author search by name whose upstream fails before the limit is reached
NameSearchFault ==
    /\ invocation.cmd = "author"
    /\ ~MissingInput
    /\ ~Supplied(invocation.scholar_id)
    /\ invocation.fault # None
    /\ Len(invocation.upstream) < invocation.limit

\* C19 as stated: apart from the missing credential and the lookup by id, no
\* upstream failure is caught: a malformed response of the book service or a failed
\* request is not handled by the books command and ends the run fatally.
C19_NoUpstreamFailureCaught ==
    (Exited /\ (MalformedResponse \/ NetworkFailure \/ NotAnObject \/ NameSearchFault))
        => Crashed

\* C19, amended: a response of the book service that is not UTF-8 or not JSON is
\* caught by the books command ("Error: ..." on stderr, exit code 1, nothing on
\* stdout); a failed request, a JSON response that is not an object, and a fault of
\* the upstream author search are not caught and end the run fatally.
C19_UpstreamFailures ==
    Exited =>
        /\ MalformedResponse =>
               /\ Completed
               /\ run.end.code = 1
               /\ ErrorReported
               /\ run.stdout = <<>>
        /\ (NetworkFailure \/ NotAnObject \/ NameSearchFault) =>
               /\ Crashed
               /\ run.stderr = <<>>
        /\ NetworkFailure => run.end.exception = "URLError"

\* the book service answers text that is not JSON: the command reports it and
\* exits with code 1
C19_Witness ==
    /\ Exited
    /\ MalformedResponse
    /\ invocation.response.kind = "not_json"
    /\ ErrorReported
    /\ run.end = [kind |-> "exit", code |-> 1, exception |-> "none"]

\* C20: with --quiet the search, author and books subcommands write nothing to
\* standard output, in any output mode and for any number of results.
C20_QuietWritesNothing ==
    (Exited /\ invocation.quiet) => run.stdout = <<>>

\* the runs that do write with --quiet: JSON output or citations of one result or more
C20_QuietJsonWritten ==
    /\ Exited
    /\ invocation.quiet
    /\ invocation.json_output
    /\ run.stdout # <<>>

-----------------------------------------------------------------------------
(* text rendering: claim C21 *)

\* what the lines of a block start with, and the two fixed texts
Caption ==
    [affiliation |-> <<" "," "," ","A","f","f","i","l","i","a","t","i","o","n",":"," ">>,
     citations |-> <<" "," "," ","C","i","t","a","t","i","o","n","s",":"," ">>,
     h_index |-> <<" "," "," ","h","-","i","n","d","e","x",":"," ">>,
     i10_index |-> <<" "," "," ","i","1","0","-","i","n","d","e","x",":"," ">>,
     interests |-> <<" "," "," ","I","n","t","e","r","e","s","t","s",":"," ">>,
     scholar_id |-> <<" "," "," ","S","c","h","o","l","a","r"," ","I","D",":"," ">>,
     authors |-> <<" "," "," ","A","u","t","h","o","r","s",":"," ">>,
     unknown |-> <<"U","n","k","n","o","w","n">>,
     publisher |-> <<" "," "," ","P","u","b","l","i","s","h","e","r",":"," ">>,
     published |-> <<" "," "," ","P","u","b","l","i","s","h","e","d",":"," ">>,
     pages |-> <<" "," "," ","P","a","g","e","s",":"," ">>,
     categories |-> <<" "," "," ","C","a","t","e","g","o","r","i","e","s",":"," ">>,
     isbn |-> <<" "," "," ","I","S","B","N",":"," ">>,
     preview |-> <<" "," "," ","P","r","e","v","i","e","w",":"," ">>,
     search_in_book |-> <<"[","S","e","a","r","c","h"," ","i","n"," ","b","o","o","k","]">>]

\* a completed run of author or books that renders a non-empty result list as text
TextRun ==
    /\ Completed
    /\ invocation.cmd \in {"author", "books"}
    /\ run.results # <<>>
    /\ ~invocation.json_output
    /\ ~Supplied(invocation.cite)
    /\ ~invocation.quiet

PrintedLines == [k \in 1..Len(run.stdout) |-> run.stdout[k].text]

HasPrefix(p, s) == Len(s) >= Len(p) /\ SubSeq(s, 1, Len(p)) = p

LinesWith(p) == {k \in 1..Len(PrintedLines) : HasPrefix(p, PrintedLines[k])}

\* the decimal numeral of a natural number
RECURSIVE Numeral(_)
Numeral(n) ==
    LET unit == <<"0","1","2","3","4","5","6","7","8","9">>[(n % 10) + 1]
    IN  IF n \div 10 = 0 THEN <<unit>> ELSE Append(Numeral(n \div 10), unit)

\* how a link is shown: an OSC 8 hyperlink on a colour terminal ("ESC" is the
\* escape character), else the text followed by the address in parentheses; with
\* no text the address is the text
Link(url, text) ==
    IF invocation.color
    THEN <<"ESC","]","8",";",";">> \o url \o <<"ESC","\\">>
             \o (IF text = <<>> THEN url ELSE text) \o <<"ESC","]","8",";",";","ESC","\\">>
    ELSE IF text = <<>> THEN url ELSE text \o <<" ","(">> \o url \o <<")">>

\* the line of an optional text field: none when the field is absent or empty
FieldLine(label, o) == IF Supplied(o) THEN <<label \o o[1]>> ELSE <<>>

\* the line of a list field: none when the list is empty
ListLine(label, l) ==
    IF l = <<>> THEN <<>> ELSE <<label \o Flatten(Interleave(l, <<",", " ">>))>>

BlockHeader(k, title) == <<"\n">> \o Numeral(k) \o <<".", " ">> \o title

\* the block of author number k
AuthorBlock(k, a) ==
    <<BlockHeader(k, a.name)>>
    \o FieldLine(Caption.affiliation, a.affiliation)
    \o <<Caption.citations \o Numeral(a.citations),
         Caption.h_index \o Numeral(a.h_index),
         Caption.i10_index \o Numeral(a.i10_index)>>
    \o ListLine(Caption.interests, a.interests)
    \o FieldLine(Caption.scholar_id, a.scholar_id)

\* the ISBN shown for a book: the ISBN-13 when populated, else the ISBN-10
ShownIsbn(b) == IF Supplied(b.isbn_13) THEN b.isbn_13 ELSE b.isbn_10

\* the block of book number k
BookBlock(k, b) ==
    <<BlockHeader(k, IF Supplied(b.info_link) THEN Link(b.info_link[1], b.title)
                     ELSE b.title)>>
    \o (IF b.authors = <<>> THEN <<Caption.authors \o Caption.unknown>>
        ELSE ListLine(Caption.authors, b.authors))
    \o FieldLine(Caption.publisher, b.publisher)
    \o FieldLine(Caption.published, b.published_date)
    \o (IF b.page_count \in {None, <<0>>} THEN <<>>
        ELSE <<Caption.pages \o Numeral(b.page_count[1])>>)
    \o ListLine(Caption.categories, b.categories)
    \o FieldLine(Caption.isbn, ShownIsbn(b))
    \o (IF Supplied(b.preview_link)
        THEN <<Caption.preview \o Link(b.preview_link[1], Caption.search_in_book)>>
        ELSE <<>>)

Blocks ==
    Flatten([k \in 1..Len(run.results) |->
                IF invocation.cmd = "author" THEN AuthorBlock(k, run.results[k])
                ELSE BookBlock(k, run.results[k])])

\* the number of records of the result list with a property
Count(P(_)) == Cardinality({k \in 1..Len(run.results) : P(run.results[k])})

\* some printed line shows the value
Appears(o) == \E k \in 1..Len(PrintedLines) : IsSubstring(o[1], PrintedLines[k])

HasAuthors(r) == r.authors # <<>>
HasPublisher(r) == Supplied(r.publisher)
HasAffiliation(r) == Supplied(r.affiliation)

-----------------------------------------------------------------------------
(* C22: the number of books search_books yields *)

\* search_books was consumed to its end and raised nothing
Yielded == pc = "books" /\ volumes.outcome.kind = "ok"

\* C22: whatever the book service answers, search_books yields at most
\* min(limit, 40) Book records
C22_AtMostLimit ==
    Yielded => Len(volumes.outcome.value) <= Min(volumes.limit, 40)
-----------------------------------------------------------------------------
(* C23: how far the upstream iterator is consumed *)

\* a search whose upstream holds more items than the limit asks for
LongerUpstream ==
    /\ pc \in {"searching", "searched"}
    /\ search.limit >= 0
    /\ Len(search.upstream) > search.limit

\* C23: with limit L and an upstream of more than L items, search_publications
\* and search_authors never ask the upstream iterator for more than L items, at
\* any point of a full consumption of their output
C23_BoundedConsumption ==
    LongerUpstream => search.requested <= search.limit
-----------------------------------------------------------------------------
(* C24: the ISBNs of the books of search_books *)

\* the items of the answer of the book service
AnsweredItems ==
    IF volumes.response.items = None THEN <<>> ELSE volumes.response.items[1]

\* the identifier entries of one item: none when the item has no volume
\* information or the volume information has no identifier list
EntriesOf(item) ==
    IF item.volumeInfo = None THEN <<>>
    ELSE IF item.volumeInfo[1].industryIdentifiers = None THEN <<>>
         ELSE item.volumeInfo[1].industryIdentifiers[1]

\* the entries of a list that carry a type tag
Tagged(entries, tag) == SelectSeq(entries, LAMBDA e : e.type = <<tag>>)

\* the value of the last entry that carries the tag, absent when there is none
TaggedValue(entries, tag) ==
    LET tagged == Tagged(entries, tag)
    IN  IF tagged = <<>> THEN <<>> ELSE tagged[Len(tagged)].identifier

Tag10 == <<"I","S","B","N","_","1","0">>
Tag13 == <<"I","S","B","N","_","1","3">>

\* C24: the Book of every item has as its ISBN-10 (ISBN-13) the value of an entry
\* of that item tagged ISBN_10 (ISBN_13), the last one when there are several,
\* and none when the item has no entry with that tag: entries with another tag
\* and the entries of the other items have no effect
C24_IsbnExtraction ==
    Yielded =>
        /\ Len(volumes.outcome.value) = Len(AnsweredItems)
        /\ \A i \in 1..Len(AnsweredItems) :
            LET entries == EntriesOf(AnsweredItems[i])
                b == volumes.outcome.value[i]
            IN  /\ b.isbn_10 = TaggedValue(entries, Tag10)
                /\ b.isbn_13 = TaggedValue(entries, Tag13)
                /\ Tagged(entries, Tag10) = <<>> => b.isbn_10 = <<>>
                /\ Tagged(entries, Tag13) = <<>> => b.isbn_13 = <<>>

\* an item with both ISBNs and an entry with another tag, followed by an item
\* with no tagged entry whose Book has neither ISBN
C24_Witness ==
    /\ Yielded
    /\ Len(AnsweredItems) = 2
    /\ \E k \in 1..Len(EntriesOf(AnsweredItems[1])) :
           EntriesOf(AnsweredItems[1])[k].type \notin {<<Tag10>>, <<Tag13>>}
    /\ volumes.outcome.value[1].isbn_10 # <<>>
    /\ volumes.outcome.value[1].isbn_13 # <<>>
    /\ Tagged(EntriesOf(AnsweredItems[2]), Tag10) = <<>>
    /\ Tagged(EntriesOf(AnsweredItems[2]), Tag13) = <<>>
    /\ volumes.outcome.value[2].isbn_10 = <<>>
    /\ volumes.outcome.value[2].isbn_13 = <<>>
-----------------------------------------------------------------------------
(* C25: cite on the supported styles *)

\* cite was called with one of the four supported styles, as written in the
\* docstring of cite
SupportedStyleCited ==
    /\ pc = "cite"
    /\ style \in {<<"a","p","a">>, <<"m","l","a">>, <<"c","h","i","c","a","g","o">>,
                  <<"h","a","r","v","a","r","d">>}

\* C25: for each of the four supported styles and every list of author names,
\* names without a token included, cite returns a string and raises no error
C25_CiteTotal ==
    SupportedStyleCited => citation.kind = "ok"
-----------------------------------------------------------------------------
(* C26: the search subcommand and the arguments of search_publications *)

\* a run of the search subcommand that has a query to work with
SearchWithQuery ==
    /\ Exited
    /\ invocation.cmd = "search"
    /\ ~SpecStdinUnusable
    /\ SpecQueryGiven

\* C26: the search subcommand with a non-empty query calls search_publications
\* with arguments it accepts: the call does not fail on its argument list and
\* the query reaches the upstream search
C26_SearchReachesUpstream ==
    SearchWithQuery =>
        /\ ~(Crashed /\ run.end.exception = "TypeError")
        /\ run.asked # <<>>

====
